---- MODULE Spec2Model ----
(***************************************************************************)
(* A model of stripemeter's billing-correctness core: the ingestion        *)
(* gateway (POST /v1/events/ingest), the aggregation queue it feeds, and   *)
(* the push of usage to the billing provider through the Stripe driver.    *)
(*                                                                         *)
(* Scope of the environment.  The model covers deployments in which the   *)
(* database module loaded, a queue connection exists and NODE_ENV is not   *)
(* 'test' (the stubs of events.ts lines 43-55 and 61-70 and the testBypass *)
(* of auth.ts serve the unit tests only).  The two authentication modes    *)
(* are both modelled: bypass = (BYPASS_AUTH = '1').                        *)
(***************************************************************************)
EXTENDS Integers, Naturals, Sequences, FiniteSets, TLC

\* ------------------------------------------------------------ bounds
\* Number of ingest requests a behaviour may start.
MaxRequests == 2
\* Longest batch of events one request carries.
MaxBatch == 2
\* Number of times the queue hands one push to a writer.
MaxExecutions == 3
\* Number of days the clock of the push side may advance.
MaxDays == 1
\* Number of calls made on one driver.
MaxDriverCalls == 2
\* Number of times reconciliation is triggered, on demand or by the schedule.
MaxTriggers == 3
\* Number of backfill requests a behaviour may start, and of re-submissions
\* of a backfill job.
MaxBackfills == 2
\* Most summaries the provider puts on one page (the request asks for at
\* most 100; the listing is scaled down with it).
PageSize == 1

\* ------------------------------------------------------------ values
\* An absent optional string (undefined).  JavaScript's || treats the empty
\* string and undefined alike, so one value stands for both.
NoValue == ""

OneHourMs == 60 * 60 * 1000

\* A timestamp is a calendar month and the milliseconds elapsed in it.
Ts(ym, ms) == [ym |-> ym, ms |-> ms]
After(a, b) == a.ym > b.ym \/ (a.ym = b.ym /\ a.ms > b.ms)
AddMs(t, d) == [ym |-> t.ym, ms |-> t.ms + d]

\* Date.prototype.toISOString of the first instant of the month.
MonthIso == <<"2025-01-01T00:00:00.000Z", "2025-02-01T00:00:00.000Z">>

Digits == <<"0", "1", "2", "3", "4", "5", "6", "7", "8", "9">>
RECURSIVE NatToString(_)
NatToString(n) ==
    IF n < 10 THEN Digits[n + 1]
    ELSE NatToString(n \div 10) \o Digits[(n % 10) + 1]

\* A wall clock, and the instants events carry.
Now0 == Ts(2, 12 * OneHourMs)
TPrevMonth == Ts(1, 5 * OneHourMs)
TPast == Ts(2, 11 * OneHourMs)
TJustBeyond == Ts(2, 13 * OneHourMs + 1)

Event(t, m, c, r, q, ts, k) ==
    [tenantId |-> t, metric |-> m, customerRef |-> c, resourceId |-> r,
     quantity |-> q, ts |-> ts, idempotencyKey |-> k]

\* The events a client may submit.
EventPool ==
    { Event("tA", "m", "c1", NoValue, 100, TPast, NoValue),
      Event("tA", "m", "c1", NoValue, 50, TPast, NoValue),
      Event("tA", "m", "c1", NoValue, 100, TJustBeyond, NoValue),
      Event("tA", "m", "x:c1", "r1", 50, TPrevMonth, "k1"),
      Event("tA", "m:x", "c1", NoValue, 50, TPrevMonth, NoValue) }

Batches == UNION { [1..n -> EventPool] : n \in 1..MaxBatch }
\* The tenant the API key of a request resolves to; in bypass mode no key is
\* verified and the request carries no tenant context.
Callers(bp) == IF bp THEN {NoValue} ELSE {"tA", "tB"}
HeaderKeys == {NoValue, "h1"}

VARIABLES
    bypass,                  \* process.env.BYPASS_AUTH === '1'
    now,                     \* the wall clock
    events,                  \* the events table (unique idempotency key)
    inMemoryIdempotencyKeys, \* the bypass-mode key set
    inMemoryEvents,          \* the bypass-mode event list
    aggregationQueue,        \* jobs of the 'aggregation' queue
    inflight,                \* requests between persistence and reply
    addsIgnored,             \* number of job adds the queue ignored
    nextReq,                 \* number of requests started
    acceptedCount            \* per key, the number of responses reporting it accepted

ingestVars == <<bypass, now, events, inMemoryIdempotencyKeys, inMemoryEvents,
                aggregationQueue, addsIgnored, inflight, nextReq, acceptedCount>>

VARIABLES
    stripeTest,              \* the driver holds a test client (STRIPE_TEST_SECRET_KEY set)
    day,                     \* days elapsed on the push side
    executions,              \* per push, the number of times a writer ran it
    pushRequests,            \* createUsageRecord requests on their way to the provider
    calls,                   \* every request a writer sent, with the push it was for
    delivered,               \* per push, the number of requests the provider answered
    providerUsage,           \* the provider's usage per (client, account, item, timestamp)
    providerKeys             \* the idempotency keys the provider remembers

pushVars == <<stripeTest, day, executions, pushRequests, calls, delivered,
              providerUsage, providerKeys>>

VARIABLES
    listing,                 \* total_usage of the provider's usage-record summaries, in order
    drv,                     \* the driver call under way, or the last one ended
    drvCalls                 \* number of driver calls started

driverVars == <<listing, drv, drvCalls>>

VARIABLES
    reconciliationFake,      \* RECONCILIATION_FAKE is set
    fakeDriftPct,            \* RECONCILIATION_FAKE_DRIFT_PCT, in hundredths
    diffSign,                \* how the reconciler signs diff (its code is not in src)
    stripeUsage,             \* the provider's total for a subscription item
    isRunning,               \* per ReconcilerWorker, its isRunning flag
    runs,                    \* the runs of runReconciliation under way
    reconciliationReports,   \* the rows of the reconciliation_reports table, in insertion order
    stripeUsageCalls,        \* the getStripeUsage calls made, by run and mapping
    triggers,                \* number of triggers so far
    lastTrigger              \* what the last trigger found and did

reconcileVars == <<reconciliationFake, fakeDriftPct, diffSign, stripeUsage, isRunning,
                   runs, reconciliationReports, stripeUsageCalls, triggers, lastTrigger>>

VARIABLES
    inMemoryBackfillOps,     \* the module's in-memory operations (bypass mode)
    backfillOps,             \* the rows of the backfill operations table
    backfillQueue,           \* jobs of the 'backfill' queue
    backfillReplies,         \* the replies of POST /backfill, with what each request did
    backfillSteps            \* number of backfill requests and job re-submissions

backfillVars == <<inMemoryBackfillOps, backfillOps, backfillQueue, backfillReplies,
                  backfillSteps>>

VARIABLES
    priceMappings,           \* the rows of the price_mappings table
    routeReplies             \* per request to a read or mapping route, what it did and was answered

routeVars == <<priceMappings, routeReplies>>

VARIABLES
    processing,              \* the aggregation jobs a worker is running, with the events each read
    counters,                \* the counters table: per bucket, its aggSum
    jobSubmissions,          \* every addBulk call: per job, the events persisted by then
    passes,                  \* every aggregation pass started, with the events it read
    repliedOk                \* the keys of the events of the requests answered 200

aggregateVars == <<processing, counters, jobSubmissions, passes, repliedOk>>

VARIABLES
    verified                 \* the requests verifyApiKey ran on: key, reply, request.tenant

authVars == <<verified>>

vars == <<ingestVars, pushVars, driverVars, reconcileVars, backfillVars, routeVars, aggregateVars, authVars>>

\* ------------------------------------------------------------ auth.ts
\* requireTenantMatch: 200 when the handler may go on, else the status sent.
RequireTenantMatchUncompared(bp, orgId, providedTenantId) ==
    IF bp THEN 200 ELSE IF orgId = NoValue THEN 401 ELSE 200
RequireTenantMatch(bp, orgId, providedTenantId) ==
    IF bp THEN 200
    ELSE IF orgId = NoValue THEN 401
    ELSE IF providedTenantId = NoValue THEN 200
    ELSE IF providedTenantId # orgId THEN 403
    ELSE 200

ZeroTenant == "00000000-0000-0000-0000-000000000000"

\* getTenantId: the tenant the handler acts for.
GetTenantId(bp, orgId) == IF bp THEN ZeroTenant ELSE orgId

\* ------------------------------------------------------------ ingest
\* generateIdempotencyKey of @stripemeter/core: a digest of the five fields,
\* modelled as their unambiguous encoding.
TsString(ts) == MonthIso[ts.ym] \o "+" \o NatToString(ts.ms)
GenerateIdempotencyKey(tenantId, metric, customerRef, resourceId, ts) ==
    "evt|" \o tenantId \o "|" \o metric \o "|" \o customerRef \o "|"
        \o resourceId \o "|" \o TsString(ts)

\* The tenant check and the tenant overwrite of the loop body: the status
\* of requireTenantMatch and the tenantId the event goes on with.
EnforceTenantTrusting(bp, orgId, ev) == [code |-> 200, tenantId |-> ev.tenantId]
EnforceTenant(bp, orgId, ev) ==
    LET code == RequireTenantMatch(bp, orgId, ev.tenantId) IN
    IF code # 200 THEN [code |-> code, tenantId |-> ev.tenantId]
    ELSE IF ~bp THEN [code |-> 200, tenantId |-> GetTenantId(bp, orgId)]
    ELSE [code |-> 200, tenantId |-> ev.tenantId]

\* event.idempotencyKey || headerIdempotencyKey || generateIdempotencyKey(..)
EffectiveKeyHeaderFirst(ev, header) ==
    IF header # NoValue THEN header
    ELSE IF ev.idempotencyKey # NoValue THEN ev.idempotencyKey
    ELSE GenerateIdempotencyKey(ev.tenantId, ev.metric, ev.customerRef,
                                ev.resourceId, ev.ts)
EffectiveKey(ev, header) ==
    IF ev.idempotencyKey # NoValue THEN ev.idempotencyKey
    ELSE IF header # NoValue THEN header
    ELSE GenerateIdempotencyKey(ev.tenantId, ev.metric, ev.customerRef,
                                ev.resourceId, ev.ts)

\* eventTime > maxFuture, maxFuture = now + 1 hour
TooFarInFutureInclusive(ts, nw) == ~After(AddMs(nw, OneHourMs), ts)
TooFarInFuture(ts, nw) == After(ts, AddMs(nw, OneHourMs))

RECURSIVE SortedSeq(_)
SortedSeq(S) ==
    IF S = {} THEN <<>>
    ELSE LET m == CHOOSE x \in S : \A y \in S : x <= y
         IN <<m>> \o SortedSeq(S \ {m})

\* The loop over the batch, for a batch that passed the tenant check:
\* every event with its tenant and key set, the rejected positions, and the
\* events to insert, in input order.
ProcessBatch(bp, orgId, header, nw, batch) ==
    LET keyed == [i \in 1..Len(batch) |->
                    LET ev == [batch[i] EXCEPT
                                 !.tenantId = EnforceTenant(bp, orgId, batch[i]).tenantId]
                    IN [ev EXCEPT !.idempotencyKey = EffectiveKey(ev, header)]]
        bad == SortedSeq({i \in 1..Len(batch) : TooFarInFuture(keyed[i].ts, nw)})
        good == SortedSeq({i \in 1..Len(batch) : ~TooFarInFuture(keyed[i].ts, nw)})
    IN [keyed |-> keyed,
        errors |-> [k \in 1..Len(bad) |-> [index |-> bad[k] - 1]],
        errorResults |-> [k \in 1..Len(bad) |->
                            [idempotencyKey |-> keyed[bad[k]].idempotencyKey,
                             status |-> "error"]],
        eventsToInsert |-> [k \in 1..Len(good) |-> keyed[good[k]]]]

Row(e, req, caller) == [event |-> e, caller |-> caller]
KeysOf(rows) == {r.event.idempotencyKey : r \in rows}
SeqRange(s) == {s[i] : i \in 1..Len(s)}

\* EventsRepository.upsertBatch of @stripemeter/database: insert-if-absent on
\* the unique idempotency key; the batch is split into the inserted events
\* and the keys of the duplicates.
RECURSIVE UpsertBatch(_, _, _, _)
UpsertBatch(table, toInsert, req, caller) ==
    IF toInsert = <<>> THEN [table |-> table, inserted |-> <<>>, duplicates |-> <<>>]
    ELSE LET e == Head(toInsert)
             dup == e.idempotencyKey \in KeysOf(table)
             rest == UpsertBatch(IF dup THEN table ELSE table \cup {Row(e, req, caller)},
                                 Tail(toInsert), req, caller)
         IN [table |-> rest.table,
             inserted |-> IF dup THEN rest.inserted ELSE <<e>> \o rest.inserted,
             duplicates |-> IF dup THEN <<e.idempotencyKey>> \o rest.duplicates
                            ELSE rest.duplicates]

\* The bypass-mode simulation of idempotency over the in-memory key set.
RECURSIVE SimulateIdempotencyForgetful(_, _, _, _, _)
SimulateIdempotencyForgetful(keys, mem, toInsert, req, caller) ==
    IF toInsert = <<>> THEN [keys |-> keys, mem |-> mem, inserted |-> <<>>, duplicates |-> <<>>]
    ELSE LET e == Head(toInsert)
             rest == SimulateIdempotencyForgetful(keys, Append(mem, Row(e, req, caller)),
                                                  Tail(toInsert), req, caller)
         IN [keys |-> rest.keys, mem |-> rest.mem,
             inserted |-> <<e>> \o rest.inserted,
             duplicates |-> rest.duplicates]
RECURSIVE SimulateIdempotencyOverwriting(_, _, _, _, _)
SimulateIdempotencyOverwriting(keys, mem, toInsert, req, caller) ==
    IF toInsert = <<>> THEN [keys |-> keys, mem |-> mem, inserted |-> <<>>, duplicates |-> <<>>]
    ELSE LET e == Head(toInsert)
             dup == e.idempotencyKey \in keys
             rest == SimulateIdempotencyOverwriting(
                         keys \cup {e.idempotencyKey},
                         IF dup
                         THEN [i \in 1..Len(mem) |->
                                 IF mem[i].event.idempotencyKey = e.idempotencyKey
                                 THEN Row(e, req, caller) ELSE mem[i]]
                         ELSE Append(mem, Row(e, req, caller)),
                         Tail(toInsert), req, caller)
         IN [keys |-> rest.keys, mem |-> rest.mem,
             inserted |-> IF dup THEN rest.inserted ELSE <<e>> \o rest.inserted,
             duplicates |-> IF dup THEN <<e.idempotencyKey>> \o rest.duplicates
                            ELSE rest.duplicates]
RECURSIVE SimulateIdempotency(_, _, _, _, _)
SimulateIdempotency(keys, mem, toInsert, req, caller) ==
    IF toInsert = <<>> THEN [keys |-> keys, mem |-> mem, inserted |-> <<>>, duplicates |-> <<>>]
    ELSE LET e == Head(toInsert)
             dup == e.idempotencyKey \in keys
             rest == SimulateIdempotency(
                         IF dup THEN keys ELSE keys \cup {e.idempotencyKey},
                         IF dup THEN mem ELSE Append(mem, Row(e, req, caller)),
                         Tail(toInsert), req, caller)
         IN [keys |-> rest.keys, mem |-> rest.mem,
             inserted |-> IF dup THEN rest.inserted ELSE <<e>> \o rest.inserted,
             duplicates |-> IF dup THEN <<e.idempotencyKey>> \o rest.duplicates
                            ELSE rest.duplicates]

\* The accepted and duplicate entries of results, by idempotency key.
MapResultsAllAccepted(toInsert, inserted, duplicates) ==
    [k \in 1..Len(toInsert) |->
        [idempotencyKey |-> toInsert[k].idempotencyKey, status |-> "accepted"]]
MapResultsInsertedOnly(toInsert, inserted, duplicates) ==
    LET insertedKeys == {inserted[i].idempotencyKey : i \in 1..Len(inserted)}
        shown == SortedSeq({k \in 1..Len(toInsert) :
                     toInsert[k].idempotencyKey \in insertedKeys})
    IN [k \in 1..Len(shown) |->
          [idempotencyKey |-> toInsert[shown[k]].idempotencyKey, status |-> "accepted"]]
MapResults(toInsert, inserted, duplicates) ==
    LET insertedKeys == {inserted[i].idempotencyKey : i \in 1..Len(inserted)}
        duplicateKeys == SeqRange(duplicates)
        shown == SortedSeq({k \in 1..Len(toInsert) :
                     toInsert[k].idempotencyKey \in insertedKeys \cup duplicateKeys})
    IN [k \in 1..Len(shown) |->
          [idempotencyKey |-> toInsert[shown[k]].idempotencyKey,
           status |-> IF toInsert[shown[k]].idempotencyKey \in insertedKeys
                      THEN "accepted" ELSE "duplicate"]]

\* reply.send({ accepted, duplicates, requestId, results, errors })
ReplyBody(r) ==
    [accepted |-> Len(r.inserted), duplicates |-> Len(r.duplicates),
     results |-> r.results, errors |-> r.errors]

\* periodStart: setUTCDate(1); setUTCHours(0, 0, 0, 0); toISOString()
PeriodStart(ts) == MonthIso[ts.ym]

JobData(e) == [tenantId |-> e.tenantId, metric |-> e.metric,
               customerRef |-> e.customerRef, periodStart |-> PeriodStart(e.ts)]

\* `${tenantId}:${metric}:${customerRef}:${periodStart}`
BucketKey(d) == d.tenantId \o ":" \o d.metric \o ":" \o d.customerRef \o ":" \o d.periodStart

\* The jobs handed to addBulk: one per key of the aggregationJobs map, which
\* keeps the data of the first inserted event with that key.
AggregationJobsPerEvent(inserted) ==
    [i \in 1..Len(inserted) |->
        [jobId |-> inserted[i].idempotencyKey, data |-> JobData(inserted[i])]]
AggregationJobs(inserted) ==
    LET first(i) == \A j \in 1..(i - 1) :
                        BucketKey(JobData(inserted[j])) # BucketKey(JobData(inserted[i]))
        kept == SortedSeq({i \in 1..Len(inserted) : first(i)})
    IN [k \in 1..Len(kept) |->
          [jobId |-> BucketKey(JobData(inserted[kept[k]])),
           data |-> JobData(inserted[kept[k]])]]

\* Queue.addBulk of bullmq: the jobs join the queue in order; a job whose id
\* is already held by the queue is not added.
RECURSIVE QueueAddBulk(_, _)
QueueAddBulk(queue, jobs) ==
    IF jobs = <<>> THEN queue
    ELSE QueueAddBulk(IF \E k \in 1..Len(queue) : queue[k].jobId = Head(jobs).jobId
                      THEN queue ELSE Append(queue, Head(jobs)),
                      Tail(jobs))

\* ------------------------------------------------------------ push
\* A quantity is a non-negative decimal, held as a whole number of 1e-7:
\* 1005000000 is 100.5.

\* Number.prototype.toFixed(6): the decimal rounded to six places, the
\* fraction padded with zeros.
RECURSIVE PadLeft(_, _)
PadLeft(str, width) == IF Len(str) >= width THEN str ELSE PadLeft("0" \o str, width)
ToFixed6(q) ==
    LET micro == (q + 5) \div 10
    IN NatToString(micro \div 1000000) \o "." \o PadLeft(NatToString(micro % 1000000), 6)

\* generateStripeIdempotencyKey of @stripemeter/core.
GenerateStripeIdempotencyKeyUnpadded(tenantId, subscriptionItemId, periodStart, quantity) ==
    LET micro == (quantity + 5) \div 10
    IN "push:" \o tenantId \o ":" \o subscriptionItemId \o ":" \o periodStart \o ":"
           \o NatToString(micro \div 1000000) \o "." \o NatToString(micro % 1000000)
GenerateStripeIdempotencyKey(tenantId, subscriptionItemId, periodStart, quantity) ==
    "push:" \o tenantId \o ":" \o subscriptionItemId \o ":" \o periodStart \o ":"
        \o ToFixed6(quantity)

\* Math.round of a non-negative number: halves go up.
MathRound(q) == (q + 5000000) \div 10000000

\* Math.floor(new Date(periodStart).getTime() / 1000) of a YYYY-MM-DD date:
\* midnight UTC of that day, in seconds since the epoch.
PeriodDates == <<"2025-01-01", "2025-02-01">>
EpochSec == <<1735689600, 1738368000>>
DeterministicTimestampSec(periodStart) ==
    EpochSec[CHOOSE i \in 1..Len(PeriodDates) : PeriodDates[i] = periodStart]

\* clientForMode: the client a mode selects, "error" when it throws.
ClientForModeFallingBack(mode, testClient) ==
    IF mode = "test" /\ testClient THEN "test" ELSE "live"
ClientForMode(mode, testClient) ==
    IF mode = "test" THEN (IF ~testClient THEN "error" ELSE "test") ELSE "live"

\* The stripeAccount request option: the account, or undefined (NoValue) for
\* the sentinel 'default'.
AccountOverrideAlways(stripeAccount) == stripeAccount
AccountOverride(stripeAccount) ==
    IF stripeAccount # "default" THEN stripeAccount ELSE NoValue

\* recordUsage: the createUsageRecord request it makes on the client.
UsageRequest(client, item, quantity, timestamp, action, key, account) ==
    [client |-> client, subscriptionItemId |-> item,
     body |-> [quantity |-> quantity, timestamp |-> timestamp, action |-> action],
     options |-> [idempotencyKey |-> key, stripeAccount |-> account]]
NoRequest == UsageRequest("error", NoValue, 0, 0, NoValue, NoValue, NoValue)
RecordUsageIncrementing(params, testClient) ==
    LET client == ClientForMode(params.mode, testClient) IN
    IF client = "error" THEN NoRequest
    ELSE UsageRequest(client, params.subscriptionItemId, MathRound(params.quantity),
             DeterministicTimestampSec(params.periodStart), "increment",
             params.idempotencyKey,
             AccountOverride(params.stripeAccount))
RecordUsage(params, testClient) ==
    LET client == ClientForMode(params.mode, testClient) IN
    IF client = "error" THEN NoRequest
    ELSE UsageRequest(client, params.subscriptionItemId, MathRound(params.quantity),
             DeterministicTimestampSec(params.periodStart), "set",
             params.idempotencyKey,
             AccountOverride(params.stripeAccount))

\* A push: the quantity the writer computed for a mapping and a period.
Push(t, item, account, mode, period, q) ==
    [tenantId |-> t, subscriptionItemId |-> item, stripeAccount |-> account,
     mode |-> mode, periodStart |-> period, quantity |-> q, shadow |-> FALSE]
\* The push computed for a mapping whose shadow flag is set.
ShadowPush(t, item, account, mode, period, q) ==
    [Push(t, item, account, mode, period, q) EXCEPT !.shadow = TRUE]
\* The writer sends a computed push to the driver unless the mapping is a
\* shadow mapping.
SendsToProviderAlways(p) == TRUE
SendsToProvider(p) == ~p.shadow

\* The pushes the queue may hand to a writer: 100.5 and 100.4999996 for one
\* item and period, and 7 for another period on the test client.
PushPool ==
    { Push("T", "S", "default", "live", "2025-01-01", 1005000000),
      Push("T", "S", "default", "live", "2025-01-01", 1004999996),
      Push("T", "S", "acct_1", "test", "2025-02-01", 70000000),
      ShadowPush("T", "S2", "default", "live", "2025-01-01", 70000000) }

\* The parameters the writer hands to the driver for a push.
WriterParams(p) ==
    [mode |-> p.mode, stripeAccount |-> p.stripeAccount,
     subscriptionItemId |-> p.subscriptionItemId, quantity |-> p.quantity,
     periodStart |-> p.periodStart,
     idempotencyKey |-> GenerateStripeIdempotencyKey(p.tenantId, p.subscriptionItemId,
                            p.periodStart, p.quantity)]

\* What the provider keeps usage under.
Slot(req) == [client |-> req.client, account |-> req.options.stripeAccount,
              item |-> req.subscriptionItemId, timestamp |-> req.body.timestamp]
\* What the provider remembers of a request it has answered.
KeyEntry(req) == [client |-> req.client, account |-> req.options.stripeAccount,
                  key |-> req.options.idempotencyKey]
\* createUsageRecord at the provider: the usage after the request.
ApplyUsage(usage, req) ==
    LET slot == Slot(req)
        old == IF slot \in DOMAIN usage THEN usage[slot] ELSE 0
    IN [x \in DOMAIN usage \cup {slot} |->
          IF x # slot THEN usage[x]
          ELSE IF req.body.action = "set" THEN req.body.quantity
          ELSE old + req.body.quantity]

\* ------------------------------------------------------------ driver calls
\* The reconciler (apps/workers reconciler.ts) is not among the sources; it
\* is modelled from section 4.5 of the specification and from
\* reconciler.test.ts.
\* The ReconcilerWorker instances.
Workers == {"w1", "w2"}
\* The active price mappings: the reconciliation subjects of a run.
Mappings == {"m1", "m2"}
\* The counter rows of a mapping's tenant, metric and period, one total per
\* customer (c1 and c2 of the test for m1).
CounterRows(m) == IF m = "m1" THEN <<100, 50>> ELSE <<40>>
\* The local total: the customers' totals added up.
RECURSIVE SumSeq(_)
SumSeq(q) == IF q = <<>> THEN 0 ELSE q[1] + SumSeq(Tail(q))
LocalTotal(m) == SumSeq(CounterRows(m))
\* The drift fractions configured, in hundredths (0.10 in the test).
FakeDriftPcts == {0, 10, 50}
\* The totals the provider may hold for an item.
StripeTotals == {135, 200}
\* localTotal x (1 - driftFraction)
FakeStripeTotalAdding(localTotal, pct) == (localTotal * (100 + pct)) \div 100
FakeStripeTotal(localTotal, pct) == (localTotal * (100 - pct)) \div 100
\* The provider total is synthesized exactly when the flag is set.
UseFakeAlways(fake) == TRUE
UseFake(fake) == fake
\* The diff of a report. The test expects 15 for a local total of 150 and a
\* provider total of 135; the two ways of computing it that agree with the
\* test are kept apart by diffSign.
DiffProviderMinusLocal(sign, localTotal, stripeTotal) == stripeTotal - localTotal
Diff(sign, localTotal, stripeTotal) ==
    IF sign = "absolute" /\ stripeTotal > localTotal
    THEN stripeTotal - localTotal
    ELSE localTotal - stripeTotal
\* db.insert(reconciliationReports).values(row)
UpsertReport(reports, row) ==
    IF \E k \in 1..Len(reports) : reports[k].mapping = row.mapping
    THEN [k \in 1..Len(reports) |->
             IF reports[k].mapping = row.mapping THEN row ELSE reports[k]]
    ELSE Append(reports, row)
InsertReport(reports, row) == Append(reports, row)
\* A trigger starts a run only when the worker is not running.
MayStartRunAlways(running) == TRUE
MayStartRun(running) == ~running
\* A run of runReconciliation and the mappings it has yet to reconcile.
Run(id, worker, todo) == [id |-> id, worker |-> worker, todo |-> todo]
NoTrigger == [worker |-> NoValue, by |-> NoValue, wasRunning |-> FALSE, started |-> FALSE]
\* The workers are constructed and nothing has run.
ReconcileStart ==
    /\ isRunning = [w \in Workers |-> FALSE]
    /\ runs = {}
    /\ reconciliationReports = <<>>
    /\ stripeUsageCalls = {}
    /\ triggers = 0
    /\ lastTrigger = NoTrigger
ReconcileIdle ==
    /\ reconciliationFake = FALSE
    /\ fakeDriftPct = 0
    /\ diffSign = "signed"
    /\ stripeUsage = 0
    /\ ReconcileStart

\* const maxRetries = 3
MaxRetries == 3
\* for (let i = 0; i < 5; i++)
MaxPages == 5
\* Most usage-record summaries the provider holds for the item: one more
\* than the page loop can read.
MaxSummaries == MaxPages * PageSize + 1
\* Math.pow(2, attempt) * 250
BaseDelayMs == 250
\* A total_usage of null.
NullUsage == -1
\* The usage of a summary that has one.
SomeUsage == 2
\* The summaries the provider holds for the subscription item: up to
\* MaxSummaries of them, at most one with a total_usage of null.
Listings ==
    { [i \in 1..n |-> IF i = k THEN NullUsage ELSE SomeUsage] :
        n \in 0..MaxSummaries, k \in 0..MaxSummaries }

\* What a provider call throws: statusCode and status as the error carries
\* them, 0 for a field it lacks.
ApiError(statusCode, status) == [kind |-> "api", statusCode |-> statusCode, status |-> status]
ConfigError == [kind |-> "config", statusCode |-> 0, status |-> 0]
NoError == [kind |-> "none", statusCode |-> 0, status |-> 0]
ApiErrors == { ApiError(429, 0), ApiError(0, 500), ApiError(600, 0),
               ApiError(400, 0), ApiError(0, 0) }

\* error?.statusCode || error?.status || 0
StatusOf(error) ==
    IF error.statusCode # 0 THEN error.statusCode
    ELSE IF error.status # 0 THEN error.status ELSE 0

\* status === 429 || (status >= 500 && status < 600)
RetryableAlways(status) == TRUE
RetryableServerErrorsOnly(status) == status >= 500 /\ status < 600
Retryable(status) == status = 429 \/ (status >= 500 /\ status < 600)

\* retryable && attempt < maxRetries
ShouldRetryThreeAttempts(status, attempt) == Retryable(status) /\ attempt + 1 < MaxRetries
ShouldRetry(status, attempt) == Retryable(status) /\ attempt < MaxRetries

\* Math.pow(2, attempt) * 250
DelayMs(attempt) == (2 ^ attempt) * BaseDelayMs

\* The provider's listing of usage-record summaries: the page after the
\* cursor, and whether more follow.  A summary's id is its position.  The
\* provider keeps one summary per billing period of the item, the newest
\* first: the summary at position k is the usage of period k.
ListUsageRecordSummaries(all, startingAfter, limit) ==
    LET last == IF startingAfter + limit < Len(all) THEN startingAfter + limit ELSE Len(all)
    IN [data |-> [k \in 1..(last - startingAfter) |->
                     [id |-> startingAfter + k, period |-> startingAfter + k,
                      total_usage |-> all[startingAfter + k]]],
        has_more |-> last < Len(all)]
\* A page the provider marks has_more without a summary on it.
EmptyPageWithMore == [data |-> <<>>, has_more |-> TRUE]
\* The periods a caller asks the summary of.
SummaryPeriods == {1, 2}

\* for (const s of resp.data) totalUsage += s.total_usage ?? 0
RECURSIVE PageTotal(_)
PageTotal(data) ==
    IF data = <<>> THEN 0
    ELSE (IF Head(data).total_usage = NullUsage THEN 0 ELSE Head(data).total_usage)
             + PageTotal(Tail(data))

\* let totalUsage = 0, declared inside the try block: every attempt starts
\* from 0 whatever an earlier attempt had summed.
InitialTotalUsageCarried(earlier) == earlier
InitialTotalUsage(earlier) == 0

\* for (let i = 0; i < 5; i++): the round with index i is the last one.
LastRoundNever(i) == FALSE
LastRound(i) == i + 1 >= MaxPages

\* The ids of the summaries on a page.
IdsOf(data) == [k \in 1..Len(data) |-> data[k].id]

\* resp.data[resp.data.length - 1]?.id, 0 for undefined
StartingAfterStuck(data) == 0
StartingAfter(data) == IF data = <<>> THEN 0 ELSE data[Len(data)].id

\* The fields of a driver call: the variables of the code, and a record of
\* what the call did (the attempts begun, the delays waited, the status of
\* every error caught, the clients a request went to, the ids of the
\* summaries the current attempt added up, and whether an attempt failed
\* after it had added up usage).
DriverCall(op, mode, pc) ==
    [op |-> op, mode |-> mode, pc |-> pc, attempt |-> 0, i |-> 0, startingAfter |-> 0,
     totalUsage |-> 0, attempts |-> 0, delays |-> <<>>, failures |-> <<>>,
     clients |-> {}, error |-> NoError, result |-> 0,
     periodStart |-> 0, counted |-> <<>>, discarded |-> FALSE]

\* No call made yet.
DriverIdle ==
    /\ drv = DriverCall("none", NoValue, "idle")
    /\ drvCalls = 0

\* The catch block of getUsageSummary, for the error an attempt threw.
Catch(d, error) ==
    IF ShouldRetry(StatusOf(error), d.attempt)
    THEN [d EXCEPT !.failures = Append(@, StatusOf(error)),
                   !.delays = Append(@, DelayMs(d.attempt)),
                   !.attempt = @ + 1,
                   !.attempts = @ + 1,
                   !.pc = "retrieve"]
    ELSE [d EXCEPT !.failures = Append(@, StatusOf(error)),
                   !.pc = "thrown", !.error = error]

\* ------------------------------------------------------------ backfill
\* MAX_DIRECT_BACKFILL_SIZE (1048576 by default), scaled down with the
\* payloads.
MaxDirectBackfillSize == 4

\* JSON.stringify of an array of items already in their JSON text.
RECURSIVE JoinComma(_)
JoinComma(items) ==
    IF items = <<>> THEN ""
    ELSE IF Len(items) = 1 THEN items[1]
    ELSE items[1] \o "," \o JoinComma(Tail(items))
JsonStringify(items) == "[" \o JoinComma(items) \o "]"

\* The bodies of a backfill request: events is an array or absent, csvData
\* a string or absent.
NoEvents == [isArray |-> FALSE, items |-> <<>>]
EventsArray(items) == [isArray |-> TRUE, items |-> items]
BackfillBodies ==
    [tenantId : {"tA", "tB"},
     events : {NoEvents, EventsArray(<<>>), EventsArray(<<"{}">>), EventsArray(<<"{}", "{}">>)},
     csvData : {NoValue, "a,b"}]

\* Determine source type and data: json for an events array, csv for a
\* non-empty csvData, otherwise none.
SourceOf(body) ==
    IF body.events.isArray
    THEN [sourceType |-> "json", sourceData |-> JsonStringify(body.events.items)]
    ELSE IF body.csvData # NoValue
    THEN [sourceType |-> "csv", sourceData |-> body.csvData]
    ELSE [sourceType |-> "none", sourceData |-> NoValue]

\* dataSize > maxDirectSize
TooLargeNever(dataSize) == FALSE
TooLarge(dataSize) == dataSize > MaxDirectBackfillSize

\* `00000000-0000-0000-0000-${(inMemoryBackfillOps.length + 1).toString().padStart(12, '0')}`
InMemoryOperationId(ops) == "00000000-0000-0000-0000-" \o PadLeft(NatToString(Len(ops) + 1), 12)
\* The id the repository gives a new row.
RepoOperationId(table) == "op-" \o NatToString(Cardinality(table) + 1)

Operation(id, tenantId, source) ==
    [id |-> id, tenantId |-> tenantId, status |-> "pending",
     sourceType |-> source.sourceType, sourceData |-> source.sourceData]

\* backfillQueue.add('process-backfill', {...}, { jobId: operation.id, ... })
BackfillJobPerRequest(operation, req) ==
    [jobId |-> operation.id \o "#" \o NatToString(req),
     data |-> [operationId |-> operation.id, tenantId |-> operation.tenantId]]
BackfillJob(operation, req) ==
    [jobId |-> operation.id,
     data |-> [operationId |-> operation.id, tenantId |-> operation.tenantId]]

\* What a backfill request did and was answered.
BackfillReply(req, code, error, body, dataSize, created, submitted, operationId) ==
    [req |-> req, code |-> code, error |-> error, body |-> body, dataSize |-> dataSize,
     created |-> created, submitted |-> submitted, operationId |-> operationId]

\* No backfill requested.
BackfillIdle ==
    /\ inMemoryBackfillOps = <<>>
    /\ backfillOps = {}
    /\ backfillQueue = <<>>
    /\ backfillReplies = <<>>
    /\ backfillSteps = 0

\* ------------------------------------------------------------ aggregation
\* The events clients submit on the aggregation side: two events of one
\* bucket and one of another customer, each with its own key.
AggregatePool ==
    { Event("tA", "m", "c1", NoValue, 100, TPast, "k1"),
      Event("tA", "m", "c1", NoValue, 50, TPast, "k2"),
      Event("tA", "m", "c2", NoValue, 50, TPast, "k3") }
AggregateBatches == UNION { [1..n -> AggregatePool] : n \in 1..MaxBatch }
\* The persisted events of a job's bucket.
EventsOfBucket(table, jobId) ==
    {r.event : r \in {x \in table : BucketKey(JobData(x.event)) = jobId}}
\* The aggregation worker's fold of a bucket: the quantities of the events
\* it read, added up.
RECURSIVE AggSum(_)
AggSum(evs) ==
    IF evs = {} THEN 0
    ELSE LET e == CHOOSE x \in evs : TRUE IN e.quantity + AggSum(evs \ {e})
\* Nothing aggregated, no job submitted.
AggregateIdle ==
    /\ processing = {}
    /\ counters = <<>>
    /\ jobSubmissions = {}
    /\ passes = {}
    /\ repliedOk = {}

\* ------------------------------------------------------------ api keys
\* No request verified yet.
AuthIdle == verified = <<>>

\* ------------------------------------------------------------ routes
\* An api key is the sequence of its characters.
KeyA == <<"a", ".", "s", "e", "c", "A">>
KeyB == <<"b", ".", "s", "e", "c", "B">>
KeyR == <<"r", ".", "s", "e", "c", "R">>
\* A second key with the prefix and the last four characters of KeyA.
KeyA2 == <<"a", ".", "x", "s", "e", "c", "A">>
\* A key nobody was given, with the prefix and last four characters of KeyA.
KeyGuess == <<"a", ".", "y", "s", "e", "c", "A">>
KeyInactive == <<"i", ".", "s", "e", "c", "I">>
KeyRevoked == <<"v", ".", "s", "e", "c", "V">>
KeyExpired == <<"e", ".", "s", "e", "c", "E">>
KeyExpiring == <<"f", ".", "s", "e", "c", "F">>
KeyUnknown == <<"x", ".", "s", "e", "c", "X">>
KeyNoDot == <<"n", "o", "d", "o", "t">>
KeyLeadingDot == <<".", "s", "e", "c", "A">>
\* No authorization and no x-api-key header.
NoKey == <<>>
BearerPrefix == <<"B", "e", "a", "r", "e", "r", " ">>
Bearer(key) == BearerPrefix \o key

\* String.prototype.startsWith, slice(n), indexOf (-1 when absent) and
\* substring(from, to), the positions counted from 0.
StartsWith(str, start) == Len(str) >= Len(start) /\ SubSeq(str, 1, Len(start)) = start
Slice(str, n) == SubSeq(str, n + 1, Len(str))
IndexOf(str, ch) ==
    IF \A k \in 1..Len(str) : str[k] # ch THEN 0 - 1
    ELSE (CHOOSE k \in 1..Len(str) : str[k] = ch /\ \A j \in 1..(k - 1) : str[j] # ch) - 1
Substring(str, from, to) == SubSeq(str, (IF from < 0 THEN 0 ELSE from) + 1, to)

\* getKeyDerivationSalt with API_KEY_SALT unset.
KeyDerivationSalt == "dev-api-key-salt"
\* createHmac('sha256', salt).update(apiKey).digest('base64url'): equal for
\* equal salt and key only.
Hmac(salt, message) == [salt |-> salt, message |-> message]

\* A revokedAt or expiresAt of null.
NoDate == Ts(0, 0)
\* A row of api_keys for a key: its prefix, last four characters and hash.
\* scopes holds the entries of the row's comma-separated list.
ApiKeyRow(id, key, organisationId, scopes, active, revokedAt, expiresAt) ==
    [id |-> id, prefix |-> Substring(key, 0, IndexOf(key, ".")),
     lastFour |-> Substring(key, Len(key) - 4, Len(key)),
     secretHash |-> Hmac(KeyDerivationSalt, key),
     organisationId |-> organisationId, scopes |-> scopes, active |-> active,
     revokedAt |-> revokedAt, expiresAt |-> expiresAt]
AllScopes == {"events:read", "mappings:read", "mappings:write"}
\* The api_keys table: keys of tA and tB, a read-only key, a second key
\* sharing prefix and last four characters with the first, an inactive, a
\* revoked and an expired key, and a key that expires the instant after Now0.
ApiKeyTable ==
    { ApiKeyRow("key_1", KeyA, "tA", AllScopes, TRUE, NoDate, NoDate),
      ApiKeyRow("key_2", KeyB, "tB", AllScopes, TRUE, NoDate, NoDate),
      ApiKeyRow("key_3", KeyR, "tA", {"mappings:read"}, TRUE, NoDate, NoDate),
      ApiKeyRow("key_4", KeyA2, "tB", AllScopes, TRUE, NoDate, NoDate),
      ApiKeyRow("key_5", KeyInactive, "tA", AllScopes, FALSE, NoDate, NoDate),
      ApiKeyRow("key_6", KeyRevoked, "tA", AllScopes, TRUE, TPast, NoDate),
      ApiKeyRow("key_7", KeyExpired, "tA", AllScopes, TRUE, NoDate, TPast),
      ApiKeyRow("key_8", KeyExpiring, "tA", AllScopes, TRUE, NoDate, AddMs(Now0, 1)) }
\* The api keys a request to a route may carry: none, one without the
\* separator, an unknown one, and keys of the table.
ApiKeys == {NoKey, KeyNoDot, KeyUnknown, KeyA, KeyB, KeyR}
\* The headers a request may carry when verifyApiKey is looked at alone.
PresentedKeys ==
    ApiKeys \cup {Bearer(KeyA), KeyA2, KeyGuess, KeyInactive, KeyRevoked, KeyExpired,
                  KeyExpiring, KeyLeadingDot}
\* request.tenant of a request nothing has authenticated.
NoTenant == [organisationId |-> NoValue, scopes |-> {}, apiKeyId |-> NoValue,
             apiKeyPrefix |-> <<>>]
\* The reply verifyApiKey sends and request.tenant as it leaves it.
Unauthorized(error) == [code |-> 401, error |-> error, tenant |-> NoTenant]
\* candidates.find(k => ...): the row is the key's and may be used at clock.
MatchesHashOnly(k, computed, clock) == k.secretHash = computed
Matches(k, computed, clock) ==
    /\ k.secretHash = computed
    /\ k.active
    /\ k.revokedAt = NoDate
    /\ (k.expiresAt = NoDate \/ After(k.expiresAt, clock))
\* The key of a header, without a leading 'Bearer '.
StripBearer(apiKeyRaw) ==
    IF StartsWith(apiKeyRaw, BearerPrefix) THEN Slice(apiKeyRaw, 7) ELSE apiKeyRaw
\* The rows looked up by prefix and last four characters.
Candidates(prefix, lastFour) ==
    {k \in ApiKeyTable : k.prefix = prefix /\ k.lastFour = lastFour}
\* request.tenant as set from the matching row.
TenantContext(match) ==
    [organisationId |-> match.organisationId, scopes |-> match.scopes,
     apiKeyId |-> match.id, apiKeyPrefix |-> match.prefix]
\* The end of verifyApiKey: 401 without a match, else the match's context.
ReplyFor(found) ==
    IF found = {} THEN Unauthorized("Invalid API key")
    ELSE [code |-> 200, error |-> NoValue,
          tenant |-> TenantContext(CHOOSE k \in found : TRUE)]
\* verifyApiKey from the format check on, for the key without 'Bearer '.
VerifyKey(apiKey) ==
    IF IndexOf(apiKey, ".") < 1 THEN Unauthorized("Invalid API key format")
    ELSE ReplyFor({k \in Candidates(Substring(apiKey, 0, IndexOf(apiKey, ".")),
                                    Substring(apiKey, Len(apiKey) - 4, Len(apiKey))) :
                      Matches(k, Hmac(KeyDerivationSalt, apiKey), now)})
\* verifyApiKey: 401 for a missing key, a key without a prefix before the
\* separator, or a key no usable row matches; else the tenant context of
\* the matching row.
VerifyApiKey(apiKeyRaw) ==
    IF apiKeyRaw = NoKey THEN Unauthorized("Missing API key")
    ELSE VerifyKey(StripBearer(apiKeyRaw))
\* requireScopes(scopes): 200 when the handler may run, else 403.
RequireScopes(bp, tenant, scopes) ==
    IF bp THEN 200
    ELSE IF \E sc \in scopes : sc \notin tenant.scopes THEN 403
    ELSE 200
\* What runs before a route's handler: the key check (outside bypass mode),
\* then the route's scope check.
PreHandler(bp, apiKeyRaw, scopes) ==
    LET auth == IF bp THEN [code |-> 200, error |-> NoValue, tenant |-> NoTenant]
                ELSE VerifyApiKey(apiKeyRaw)
    IN IF auth.code # 200 THEN [code |-> auth.code, tenant |-> auth.tenant]
       ELSE [code |-> RequireScopes(bp, auth.tenant, scopes), tenant |-> auth.tenant]
\* The tenant ids a request may name.
ProvidedTenantIds == {NoValue, "tA", "tB"}
PriceMapping(id, tenantId, active) == [id |-> id, tenantId |-> tenantId, active |-> active]
MappingIds == {"map_1", "map_2", "map_3"}
\* The body of PUT /v1/mappings/:id, as sent.
MappingUpdates == [tenantId : ProvidedTenantIds, active : BOOLEAN]
\* db.update(priceMappings).set(updates): the fields of the body replace the row's.
SetUpdates(row, updates) ==
    [row EXCEPT !.tenantId = IF updates.tenantId = NoValue THEN @ ELSE updates.tenantId,
                !.active = updates.active]
\* What a request did and was answered: the rows it read and the rows it
\* wrote or deleted.
RouteReply(route, tenant, providedTenantId, code, read, written) ==
    [route |-> route, organisationId |-> tenant.organisationId,
     providedTenantId |-> providedTenantId, code |-> code, read |-> read,
     written |-> written]
\* The tables as the routes find them: an event, a mapping and a backfill
\* operation of each tenant.
StoredEvents ==
    { Row(Event("tA", "m", "c1", NoValue, 100, TPast, "ka"), 0, "tA"),
      Row(Event("tB", "m", "c1", NoValue, 50, TPast, "kb"), 0, "tB") }
StoredMappings == {PriceMapping("map_1", "tA", TRUE), PriceMapping("map_2", "tB", TRUE)}
StoredOps ==
    { Operation("op-1", "tA", [sourceType |-> "csv", sourceData |-> "a,b"]),
      Operation("op-2", "tB", [sourceType |-> "csv", sourceData |-> "a,b"]) }
\* No request to a read or mapping route yet.
RouteIdle ==
    /\ priceMappings = {}
    /\ routeReplies = <<>>

\* ------------------------------------------------------------ actions
\* Nothing ingested, nothing queued.
IngestIdle ==
    /\ events = {}
    /\ inMemoryIdempotencyKeys = {}
    /\ inMemoryEvents = <<>>
    /\ aggregationQueue = <<>>
    /\ addsIgnored = 0
    /\ inflight = {}
    /\ nextReq = 0
    /\ acceptedCount = <<>>

\* Nothing pushed, the provider empty.
PushIdle ==
    /\ day = 0
    /\ executions = [p \in PushPool |-> 0]
    /\ pushRequests = {}
    /\ calls = {}
    /\ delivered = [p \in PushPool |-> 0]
    /\ providerUsage = <<>>
    /\ providerKeys = {}

Init ==
    /\ bypass \in BOOLEAN
    /\ now \in {Now0, AddMs(Now0, 1)}
    /\ IngestIdle
    /\ stripeTest = TRUE
    /\ PushIdle
    /\ listing = <<>>
    /\ DriverIdle
    /\ ReconcileIdle
    /\ AuthIdle
    /\ AggregateIdle
    /\ RouteIdle
    /\ BackfillIdle

\* The catch around upsertBatch: the error is absorbed in bypass mode and
\* thrown again otherwise.
CatchAbsorbsAlways(bp) == TRUE
CatchAbsorbs(bp) == bp

\* One more response reporting each key of keys accepted.
CountAccepted(count, keys) ==
    [k \in DOMAIN count \cup keys |->
        (IF k \in DOMAIN count THEN count[k] ELSE 0) + (IF k \in keys THEN 1 ELSE 0)]

\* What the handler holds when it awaits addBulk, or the status it ends with.
Failed(req, caller, code) ==
    [req |-> req, code |-> code, caller |-> caller, header |-> NoValue,
     batch |-> <<>>, keyed |-> <<>>, eventsToInsert |-> <<>>,
     inserted |-> <<>>,
     duplicates |-> <<>>, results |-> <<>>, errors |-> <<>>, jobs |-> <<>>,
     store |-> NoValue, seenTable |-> {}, seenMemory |-> {}]

\* POST /ingest with a schema-valid body, up to the await of addBulk: the
\* loop over the batch, upsertBatch (repoOk: it returns; otherwise it
\* throws), the bypass-mode simulation, the results and the jobs.
Ingest(caller, header, batch, repoOk) ==
    /\ nextReq < MaxRequests
    /\ nextReq' = nextReq + 1
    /\ LET req == CHOOSE n \in 1..MaxRequests :
                      /\ \A r \in inflight : r.req # n
                      /\ \A m \in 1..(n - 1) : \E r \in inflight : r.req = m
           codes == [i \in 1..Len(batch) |-> EnforceTenant(bypass, caller, batch[i]).code]
           refused == {i \in 1..Len(batch) : codes[i] # 200}
       IN
       IF refused # {} THEN
           /\ inflight' = inflight \cup
                  {Failed(req, caller,
                          codes[CHOOSE i \in refused : \A j \in refused : i <= j])}
           /\ UNCHANGED <<events, inMemoryIdempotencyKeys, inMemoryEvents>>
       ELSE
           LET loop == ProcessBatch(bypass, caller, header, now, batch)
               toInsert == loop.eventsToInsert
               res == UpsertBatch(events, toInsert, req, caller)
               simulate == bypass /\ ~repoOk /\ Len(toInsert) > 0
               sim == SimulateIdempotency(inMemoryIdempotencyKeys, inMemoryEvents,
                                          toInsert, req, caller)
               inserted == IF repoOk THEN res.inserted
                           ELSE IF simulate THEN sim.inserted ELSE <<>>
               duplicates == IF repoOk THEN res.duplicates
                             ELSE IF simulate THEN sim.duplicates ELSE <<>>
           IN
           IF ~repoOk /\ ~CatchAbsorbs(bypass) THEN
               /\ inflight' = inflight \cup {Failed(req, caller, 500)}
               /\ UNCHANGED <<events, inMemoryIdempotencyKeys, inMemoryEvents>>
           ELSE
               /\ events' = IF repoOk THEN res.table ELSE events
               /\ inMemoryIdempotencyKeys' =
                      IF simulate THEN sim.keys ELSE inMemoryIdempotencyKeys
               /\ inMemoryEvents' = IF simulate THEN sim.mem ELSE inMemoryEvents
               /\ inflight' = inflight \cup
                      {[req |-> req, code |-> 200, caller |-> caller,
                        header |-> header, batch |-> batch,
                        keyed |-> loop.keyed,
                        eventsToInsert |-> toInsert,
                        inserted |-> inserted, duplicates |-> duplicates,
                        results |-> loop.errorResults
                                      \o MapResults(toInsert, inserted, duplicates),
                        errors |-> loop.errors,
                        jobs |-> IF Len(inserted) > 0
                                 THEN AggregationJobs(inserted) ELSE <<>>,
                        store |-> IF repoOk \/ ~simulate THEN "table" ELSE "memory",
                        seenTable |-> KeysOf(events),
                        seenMemory |-> inMemoryIdempotencyKeys]}
    /\ UNCHANGED <<bypass, now, aggregationQueue, addsIgnored, acceptedCount>>
    /\ UNCHANGED <<pushVars, driverVars, reconcileVars, backfillVars, routeVars, aggregateVars, authVars>>

\* The rest of the handler: addBulk, then reply.send.
EnqueueAndReply(r) ==
    /\ r \in inflight
    /\ r.code = 200
    /\ aggregationQueue' = QueueAddBulk(aggregationQueue, r.jobs)
    /\ addsIgnored' = addsIgnored + Len(aggregationQueue) + Len(r.jobs)
                          - Len(QueueAddBulk(aggregationQueue, r.jobs))
    /\ acceptedCount' = CountAccepted(acceptedCount,
           {r.results[k].idempotencyKey :
               k \in {k \in 1..Len(r.results) : r.results[k].status = "accepted"}})
    /\ inflight' = inflight \ {r}
    /\ UNCHANGED <<bypass, now, events, inMemoryIdempotencyKeys, inMemoryEvents, nextReq>>
    /\ UNCHANGED <<pushVars, driverVars, reconcileVars, backfillVars, routeVars, aggregateVars, authVars>>

\* A request that ended with 401, 403 or 500: nothing but the status is sent.
ReplyError(r) ==
    /\ r \in inflight
    /\ r.code # 200
    /\ inflight' = inflight \ {r}
    /\ UNCHANGED <<bypass, now, events, inMemoryIdempotencyKeys, inMemoryEvents,
                   aggregationQueue, addsIgnored, nextReq, acceptedCount>>
    /\ UNCHANGED <<pushVars, driverVars, reconcileVars, backfillVars, routeVars, aggregateVars, authVars>>

\* POST /ingest with a body the schema rejects, whose first event carries
\* ev's fields: 400, except in bypass mode, which answers from the
\* in-memory key set.
IngestInvalid(ev) ==
    /\ nextReq < MaxRequests
    /\ nextReq' = nextReq + 1
    /\ LET key == GenerateIdempotencyKey(ev.tenantId, ev.metric, ev.customerRef,
                                         ev.resourceId, ev.ts)
       IN IF bypass THEN
              /\ inMemoryIdempotencyKeys' = inMemoryIdempotencyKeys \cup {key}
              /\ acceptedCount' = CountAccepted(acceptedCount,
                     IF key \in inMemoryIdempotencyKeys THEN {} ELSE {key})
          ELSE UNCHANGED <<inMemoryIdempotencyKeys, acceptedCount>>
    /\ UNCHANGED <<bypass, now, events, inMemoryEvents, aggregationQueue, addsIgnored,
                   inflight>>
    /\ UNCHANGED <<pushVars, driverVars, reconcileVars, backfillVars, routeVars, aggregateVars, authVars>>

\* The aggregation worker takes the oldest job, runs it, and the job leaves
\* the queue.
RunAggregationJob ==
    /\ aggregationQueue # <<>>
    /\ aggregationQueue' = Tail(aggregationQueue)
    /\ UNCHANGED <<bypass, now, events, inMemoryIdempotencyKeys, inMemoryEvents,
                   addsIgnored, inflight, nextReq, acceptedCount>>
    /\ UNCHANGED <<pushVars, driverVars, reconcileVars, backfillVars, routeVars, aggregateVars, authVars>>

Next ==
    \/ \E caller \in Callers(bypass), header \in HeaderKeys, batch \in Batches, repoOk \in BOOLEAN :
           Ingest(caller, header, batch, repoOk)
    \/ \E r \in inflight : EnqueueAndReply(r)
    \/ \E r \in inflight : ReplyError(r)
    \/ \E ev \in EventPool : IngestInvalid(ev)
    \/ RunAggregationJob

Spec == Init /\ [][Next]_vars

\* ------------------------------------------------------------ push actions
InitPush ==
    /\ bypass = FALSE
    /\ now = Now0
    /\ IngestIdle
    /\ stripeTest \in BOOLEAN
    /\ PushIdle
    /\ listing = <<>>
    /\ DriverIdle
    /\ ReconcileIdle
    /\ AuthIdle
    /\ AggregateIdle
    /\ RouteIdle
    /\ BackfillIdle

\* A writer instance runs the push: it derives the key and, unless the
\* mapping is a shadow mapping, calls the driver, which sends the request,
\* or throws for want of a test client.  Requests
\* of one push that are on their way together are told apart by nothing, so
\* one stands for all of them.
WriterExecute(p) ==
    /\ executions[p] < MaxExecutions
    /\ executions' = [executions EXCEPT ![p] = @ + 1]
    /\ LET req == RecordUsage(WriterParams(p), stripeTest) IN
       IF ~SendsToProvider(p) \/ req.client = "error" THEN UNCHANGED <<pushRequests, calls>>
       ELSE /\ pushRequests' = pushRequests \cup
                   {[push |-> p, request |-> req]}
            /\ calls' = calls \cup {[push |-> p, request |-> req]}
    /\ UNCHANGED <<stripeTest, day, delivered, providerUsage, providerKeys>>
    /\ UNCHANGED <<ingestVars, driverVars, reconcileVars, backfillVars, routeVars, aggregateVars, authVars>>

\* The provider answers a request: a key it remembers makes the request a
\* replay (or an idempotency error) without effect; otherwise the usage
\* record is written and the key remembered.
ProviderHandle(m) ==
    /\ m \in pushRequests
    /\ pushRequests' = pushRequests \ {m}
    /\ delivered' = [delivered EXCEPT ![m.push] = @ + 1]
    /\ IF KeyEntry(m.request) \in providerKeys
       THEN UNCHANGED <<providerUsage, providerKeys>>
       ELSE /\ providerUsage' = ApplyUsage(providerUsage, m.request)
            /\ providerKeys' = providerKeys \cup {KeyEntry(m.request)}
    /\ UNCHANGED <<stripeTest, day, executions, calls>>
    /\ UNCHANGED <<ingestVars, driverVars, reconcileVars, backfillVars, routeVars, aggregateVars, authVars>>

\* A request fails on the way (timeout, 5xx): the error surfaces to the job
\* runner, whose retry is another execution.
RequestFails(m) ==
    /\ m \in pushRequests
    /\ pushRequests' = pushRequests \ {m}
    /\ UNCHANGED <<stripeTest, day, executions, calls, delivered, providerUsage,
                   providerKeys>>
    /\ UNCHANGED <<ingestVars, driverVars, reconcileVars, backfillVars, routeVars, aggregateVars, authVars>>

\* A day passes: the provider forgets the idempotency keys it held.
DayPasses ==
    /\ day < MaxDays
    /\ day' = day + 1
    /\ providerKeys' = {}
    /\ UNCHANGED <<stripeTest, executions, pushRequests, calls, delivered, providerUsage>>
    /\ UNCHANGED <<ingestVars, driverVars, reconcileVars, backfillVars, routeVars, aggregateVars, authVars>>

NextPush ==
    \/ \E p \in PushPool : WriterExecute(p)
    \/ \E m \in pushRequests : ProviderHandle(m)
    \/ \E m \in pushRequests : RequestFails(m)
    \/ DayPasses

SpecPush == InitPush /\ [][NextPush]_vars

\* ------------------------------------------------------------ driver actions
InitDriver ==
    /\ bypass = FALSE
    /\ now = Now0
    /\ IngestIdle
    /\ stripeTest \in BOOLEAN
    /\ PushIdle
    /\ listing \in Listings
    /\ DriverIdle
    /\ ReconcileIdle
    /\ AuthIdle
    /\ AggregateIdle
    /\ RouteIdle
    /\ BackfillIdle

\* A caller may start a call when none is under way.
MayCall ==
    /\ drv.pc \in {"idle", "returned", "thrown"}
    /\ drvCalls < MaxDriverCalls

\* getUsageSummary is called for a period: the first attempt begins.
GetUsageSummary(periodStart) ==
    /\ MayCall
    /\ drvCalls' = drvCalls + 1
    /\ drv' = [DriverCall("getUsageSummary", "live", "retrieve")
                  EXCEPT !.attempts = 1, !.periodStart = periodStart]
    /\ UNCHANGED listing
    /\ UNCHANGED <<ingestVars, pushVars, reconcileVars, backfillVars, routeVars, aggregateVars, authVars>>

\* client.subscriptionItems.retrieve answers, or throws error.
Retrieve(ok, error) ==
    /\ drv.op = "getUsageSummary"
    /\ drv.pc = "retrieve"
    /\ LET d == [drv EXCEPT !.clients = @ \cup {"live"}] IN
       drv' = IF ok
              THEN [d EXCEPT !.pc = "list", !.i = 0, !.startingAfter = 0,
                             !.totalUsage = InitialTotalUsage(@), !.counted = <<>>]
              ELSE Catch(d, error)
    /\ UNCHANGED <<listing, drvCalls>>
    /\ UNCHANGED <<ingestVars, pushVars, reconcileVars, backfillVars, routeVars, aggregateVars, authVars>>

\* One round of the page loop, listUsageRecordSummaries answering resp or
\* throwing error: the page is added up, and the loop goes on or the call
\* returns.
Round(resp, ok, error) ==
    /\ drv.op = "getUsageSummary"
    /\ drv.pc = "list"
    /\ LET total == drv.totalUsage + PageTotal(resp.data)
           counted == drv.counted \o IdsOf(resp.data)
       IN drv' = IF ~ok
                 THEN Catch([drv EXCEPT !.discarded = @ \/ drv.totalUsage > 0], error)
                 ELSE IF ~resp.has_more \/ LastRound(drv.i)
                 THEN [drv EXCEPT !.totalUsage = total, !.result = total, !.pc = "returned",
                                  !.counted = counted,
                                  !.i = IF resp.has_more THEN @ + 1 ELSE @,
                                  !.startingAfter = IF resp.has_more
                                                    THEN StartingAfter(resp.data) ELSE @]
                 ELSE [drv EXCEPT !.totalUsage = total, !.i = @ + 1,
                                  !.counted = counted,
                                  !.startingAfter = StartingAfter(resp.data)]
    /\ UNCHANGED <<listing, drvCalls>>
    /\ UNCHANGED <<ingestVars, pushVars, reconcileVars, backfillVars, routeVars, aggregateVars, authVars>>

\* The provider answers with the page after the cursor.
ListPage(ok, error) ==
    Round(ListUsageRecordSummaries(listing, drv.startingAfter, PageSize), ok, error)
\* The provider answers with an empty page marked has_more.
ListEmptyPage == Round(EmptyPageWithMore, TRUE, NoError)

\* A call that makes one request on the client its mode selects: recordUsage
\* with the mode given, createTestClock and advanceTestClock with mode test.
\* Without the client the call throws before any request.
SingleRequestCall(op, mode, ok, error) ==
    /\ MayCall
    /\ drvCalls' = drvCalls + 1
    /\ LET client == ClientForMode(mode, stripeTest)
           d == DriverCall(op, mode, "returned")
       IN drv' = IF client = "error"
                 THEN [d EXCEPT !.pc = "thrown", !.error = ConfigError]
                 ELSE IF ok THEN [d EXCEPT !.clients = {client}, !.attempts = 1]
                 ELSE [d EXCEPT !.clients = {client}, !.attempts = 1,
                                !.failures = <<StatusOf(error)>>,
                                !.pc = "thrown", !.error = error]
    /\ UNCHANGED listing
    /\ UNCHANGED <<ingestVars, pushVars, reconcileVars, backfillVars, routeVars, aggregateVars, authVars>>

RecordUsageCall(mode, ok, error) == SingleRequestCall("recordUsage", mode, ok, error)
CreateTestClock(ok, error) == SingleRequestCall("createTestClock", "test", ok, error)
AdvanceTestClock(ok, error) == SingleRequestCall("advanceTestClock", "test", ok, error)

NextDriver ==
    \/ \E periodStart \in SummaryPeriods : GetUsageSummary(periodStart)
    \/ \E ok \in BOOLEAN, error \in ApiErrors : Retrieve(ok, error)
    \/ \E ok \in BOOLEAN, error \in ApiErrors : ListPage(ok, error)
    \/ \E mode \in {"live", "test"}, ok \in BOOLEAN, error \in ApiErrors :
           RecordUsageCall(mode, ok, error)
    \/ \E ok \in BOOLEAN, error \in ApiErrors : CreateTestClock(ok, error)
    \/ \E ok \in BOOLEAN, error \in ApiErrors : AdvanceTestClock(ok, error)

SpecDriver == InitDriver /\ [][NextDriver]_vars

\* The driver against a provider that may also answer a list request with
\* an empty page marked has_more.
NextDriverEmptyPages ==
    \/ NextDriver
    \/ ListEmptyPage
SpecDriverEmptyPages == InitDriver /\ [][NextDriverEmptyPages]_vars

\* -------------------------------------------------------- reconciler actions
InitReconcile ==
    /\ bypass = FALSE
    /\ now = Now0
    /\ IngestIdle
    /\ stripeTest = FALSE
    /\ PushIdle
    /\ listing = <<>>
    /\ DriverIdle
    /\ reconciliationFake \in BOOLEAN
    /\ fakeDriftPct \in FakeDriftPcts
    /\ diffSign \in {"signed", "absolute"}
    /\ stripeUsage \in StripeTotals
    /\ ReconcileStart
    /\ AuthIdle
    /\ AggregateIdle
    /\ RouteIdle
    /\ BackfillIdle

\* A trigger on worker w, by a caller or by the schedule: runReconciliation
\* starts unless the worker is running, and the worker is running from then on.
Trigger(w, by) ==
    /\ triggers < MaxTriggers
    /\ triggers' = triggers + 1
    /\ LET start == MayStartRun(isRunning[w]) IN
       /\ lastTrigger' = [worker |-> w, by |-> by, wasRunning |-> isRunning[w], started |-> start]
       /\ isRunning' = IF start THEN [isRunning EXCEPT ![w] = TRUE] ELSE isRunning
       /\ runs' = IF start THEN runs \cup {Run(triggers + 1, w, Mappings)} ELSE runs
    /\ UNCHANGED <<reconciliationFake, fakeDriftPct, diffSign, stripeUsage,
                   reconciliationReports, stripeUsageCalls>>
    /\ UNCHANGED <<ingestVars, pushVars, driverVars, backfillVars, routeVars, aggregateVars, authVars>>

\* worker.triggerOnDemand()
TriggerOnDemand(w) == Trigger(w, "triggerOnDemand")
\* The periodic schedule of a worker fires.
ScheduledRun(w) == Trigger(w, "schedule")

\* A run reconciles one mapping: the local total from the counters, the
\* provider total synthesized in fake mode and asked of the provider
\* otherwise, and one report inserted.
ReconcileMapping(run, m) ==
    /\ run \in runs
    /\ m \in run.todo
    /\ LET localTotal == LocalTotal(m)
           fake == UseFake(reconciliationFake)
           stripeTotal == IF fake THEN FakeStripeTotal(localTotal, fakeDriftPct)
                          ELSE stripeUsage
           row == [run |-> run.id, worker |-> run.worker, mapping |-> m,
                   localTotal |-> localTotal, stripeTotal |-> stripeTotal,
                   diff |-> Diff(diffSign, localTotal, stripeTotal),
                   synthesized |-> fake]
       IN /\ stripeUsageCalls' = IF fake THEN stripeUsageCalls
                                 ELSE stripeUsageCalls \cup {<<run.id, m>>}
          /\ reconciliationReports' = InsertReport(reconciliationReports, row)
    /\ runs' = (runs \ {run}) \cup {Run(run.id, run.worker, run.todo \ {m})}
    /\ UNCHANGED <<reconciliationFake, fakeDriftPct, diffSign, stripeUsage,
                   isRunning, triggers, lastTrigger>>
    /\ UNCHANGED <<ingestVars, pushVars, driverVars, backfillVars, routeVars, aggregateVars, authVars>>

\* A run that has reconciled every mapping ends: the worker is idle again.
FinishRun(run) ==
    /\ run \in runs
    /\ run.todo = {}
    /\ runs' = runs \ {run}
    /\ isRunning' = [isRunning EXCEPT ![run.worker] = FALSE]
    /\ UNCHANGED <<reconciliationFake, fakeDriftPct, diffSign, stripeUsage,
                   reconciliationReports, stripeUsageCalls, triggers, lastTrigger>>
    /\ UNCHANGED <<ingestVars, pushVars, driverVars, backfillVars, routeVars, aggregateVars, authVars>>

NextReconcile ==
    \/ \E w \in Workers : TriggerOnDemand(w)
    \/ \E w \in Workers : ScheduledRun(w)
    \/ \E run \in runs, m \in Mappings : ReconcileMapping(run, m)
    \/ \E run \in runs : FinishRun(run)

SpecReconcile == InitReconcile /\ [][NextReconcile]_vars

\* ---------------------------------------------------------- backfill actions
InitBackfill ==
    /\ bypass \in BOOLEAN
    /\ now = Now0
    /\ IngestIdle
    /\ stripeTest = FALSE
    /\ PushIdle
    /\ listing = <<>>
    /\ DriverIdle
    /\ ReconcileIdle
    /\ AuthIdle
    /\ AggregateIdle
    /\ RouteIdle
    /\ BackfillIdle

\* POST /backfill: the tenant check, the schema (valid: the body passes
\* it), the source and size checks, the operation record (repoOk: the
\* repository's create returns), the job (queueOk: add returns) and the
\* reply.
PostBackfill(caller, body, valid, repoOk, queueOk) ==
    /\ backfillSteps < MaxBackfills
    /\ backfillSteps' = backfillSteps + 1
    /\ LET req == backfillSteps + 1
           gate == RequireTenantMatch(bypass, caller, body.tenantId)
           tenantId == IF bypass THEN body.tenantId ELSE GetTenantId(bypass, caller)
           source == SourceOf(body)
           dataSize == Len(source.sourceData)
           refuse(code, error, size) ==
               /\ backfillReplies' = Append(backfillReplies,
                      BackfillReply(req, code, error, body, size, <<>>, <<>>, NoValue))
               /\ UNCHANGED <<inMemoryBackfillOps, backfillOps, backfillQueue>>
       IN
       IF gate # 200 THEN refuse(gate, "forbidden", 0)
       ELSE IF ~valid THEN refuse(400, "Validation Error", 0)
       ELSE IF source.sourceType = "none" THEN refuse(400, "Invalid Request", 0)
       ELSE IF TooLarge(dataSize) THEN refuse(413, "Payload Too Large", dataSize)
       ELSE IF ~bypass /\ ~repoOk THEN refuse(500, "Internal Server Error", dataSize)
       ELSE
           LET operation == Operation(IF bypass THEN InMemoryOperationId(inMemoryBackfillOps)
                                      ELSE RepoOperationId(backfillOps),
                                      tenantId, source)
               job == BackfillJob(operation, req)
           IN
           /\ inMemoryBackfillOps' = IF bypass THEN Append(inMemoryBackfillOps, operation)
                                     ELSE inMemoryBackfillOps
           /\ backfillOps' = IF repoOk THEN backfillOps \cup {operation} ELSE backfillOps
           /\ backfillQueue' = IF queueOk THEN QueueAddBulk(backfillQueue, <<job>>)
                               ELSE backfillQueue
           /\ backfillReplies' = Append(backfillReplies,
                  IF queueOk
                  THEN BackfillReply(req, 200, NoValue, body, dataSize,
                                     <<operation>>, <<job>>, operation.id)
                  ELSE BackfillReply(req, 500, "Internal Server Error", body, dataSize,
                                     <<operation>>, <<>>, NoValue))
    /\ UNCHANGED <<ingestVars, pushVars, driverVars, reconcileVars, routeVars, aggregateVars, authVars>>

\* The job of an operation is submitted again with the same options.
ResubmitBackfillJob(k) ==
    /\ backfillSteps < MaxBackfills
    /\ backfillSteps' = backfillSteps + 1
    /\ k \in 1..Len(backfillReplies)
    /\ backfillReplies[k].submitted # <<>>
    /\ backfillQueue' = QueueAddBulk(backfillQueue, backfillReplies[k].submitted)
    /\ UNCHANGED <<inMemoryBackfillOps, backfillOps, backfillReplies>>
    /\ UNCHANGED <<ingestVars, pushVars, driverVars, reconcileVars, routeVars, aggregateVars, authVars>>

NextBackfill ==
    \/ \E caller \in Callers(bypass), body \in BackfillBodies,
          valid \in BOOLEAN, repoOk \in BOOLEAN, queueOk \in BOOLEAN :
           PostBackfill(caller, body, valid, repoOk, queueOk)
    \/ \E k \in 1..Len(backfillReplies) : ResubmitBackfillJob(k)

SpecBackfill == InitBackfill /\ [][NextBackfill]_vars

\* ------------------------------------------------------------ routes: actions
MaxRouteRequests == 2

\* The tables hold rows of two tenants; no request yet.
InitRoutes ==
    /\ bypass \in BOOLEAN
    /\ now = Now0
    /\ events = StoredEvents
    /\ inMemoryIdempotencyKeys = {}
    /\ inMemoryEvents = <<>>
    /\ aggregationQueue = <<>>
    /\ addsIgnored = 0
    /\ inflight = {}
    /\ nextReq = 0
    /\ acceptedCount = <<>>
    /\ stripeTest = FALSE
    /\ PushIdle
    /\ listing = <<>>
    /\ DriverIdle
    /\ ReconcileIdle
    /\ AuthIdle
    /\ AggregateIdle
    /\ inMemoryBackfillOps = <<>>
    /\ backfillOps = StoredOps
    /\ backfillQueue = <<>>
    /\ backfillReplies = <<>>
    /\ backfillSteps = 0
    /\ priceMappings = StoredMappings
    /\ routeReplies = <<>>

\* A request ends with its reply; rows is the new content of price_mappings.
Answer(route, tenant, providedTenantId, code, read, written, rows) ==
    /\ Len(routeReplies) < MaxRouteRequests
    /\ routeReplies' = Append(routeReplies,
           RouteReply(route, tenant, providedTenantId, code, read, written))
    /\ priceMappings' = rows
    /\ UNCHANGED <<ingestVars, pushVars, driverVars, reconcileVars, backfillVars, aggregateVars, authVars>>

\* GET /v1/mappings: the tenant check, then the rows of the caller's tenant.
GetMappings(apiKeyRaw, tenantId) ==
    LET pre == PreHandler(bypass, apiKeyRaw, {"mappings:read"})
        gate == RequireTenantMatch(bypass, pre.tenant.organisationId, tenantId)
        own == GetTenantId(bypass, pre.tenant.organisationId)
    IN IF pre.code # 200
       THEN Answer("GET /v1/mappings", pre.tenant, tenantId, pre.code, {}, {}, priceMappings)
       ELSE IF gate # 200
       THEN Answer("GET /v1/mappings", pre.tenant, tenantId, gate, {}, {}, priceMappings)
       ELSE Answer("GET /v1/mappings", pre.tenant, tenantId, 200,
                   {m \in priceMappings : m.tenantId = own}, {}, priceMappings)

\* POST /v1/mappings: the tenant check, then a row for the caller's tenant.
PostMapping(apiKeyRaw, tenantId, id) ==
    LET pre == PreHandler(bypass, apiKeyRaw, {"mappings:write"})
        gate == RequireTenantMatch(bypass, pre.tenant.organisationId, tenantId)
        row == PriceMapping(id, GetTenantId(bypass, pre.tenant.organisationId), TRUE)
    IN /\ \A m \in priceMappings : m.id # id
       /\ IF pre.code # 200
          THEN Answer("POST /v1/mappings", pre.tenant, tenantId, pre.code, {}, {}, priceMappings)
          ELSE IF gate # 200
          THEN Answer("POST /v1/mappings", pre.tenant, tenantId, gate, {}, {}, priceMappings)
          ELSE Answer("POST /v1/mappings", pre.tenant, tenantId, 201, {}, {row},
                      priceMappings \cup {row})

\* PUT /v1/mappings/:id: the row with the id gets the fields of the body.
PutMapping(apiKeyRaw, id, updates) ==
    LET pre == PreHandler(bypass, apiKeyRaw, {"mappings:write"})
        hit == {m \in priceMappings : m.id = id}
        updated == {SetUpdates(m, updates) : m \in hit}
    IN IF pre.code # 200
       THEN Answer("PUT /v1/mappings/:id", pre.tenant, updates.tenantId, pre.code, {}, {},
                   priceMappings)
       ELSE Answer("PUT /v1/mappings/:id", pre.tenant, updates.tenantId, 200, {}, updated,
                   (priceMappings \ hit) \cup updated)

\* DELETE /v1/mappings/:id: the row with the id is deleted.
DeleteMapping(apiKeyRaw, id) ==
    LET pre == PreHandler(bypass, apiKeyRaw, {"mappings:write"})
        hit == {m \in priceMappings : m.id = id}
    IN IF pre.code # 200
       THEN Answer("DELETE /v1/mappings/:id", pre.tenant, NoValue, pre.code, {}, {},
                   priceMappings)
       ELSE Answer("DELETE /v1/mappings/:id", pre.tenant, NoValue, 204, {}, hit,
                   priceMappings \ hit)

\* GET /v1/events: the events of the tenant the query names.
GetEvents(apiKeyRaw, tenantId, valid) ==
    LET pre == PreHandler(bypass, apiKeyRaw, {})
        list == IF bypass
                THEN {e \in SeqRange(inMemoryEvents) : e.tenantId = tenantId}
                ELSE {r.event : r \in {x \in events : x.event.tenantId = tenantId}}
    IN IF pre.code # 200
       THEN Answer("GET /v1/events", pre.tenant, tenantId, pre.code, {}, {}, priceMappings)
       ELSE IF ~valid
       THEN Answer("GET /v1/events", pre.tenant, tenantId, 400, {}, {}, priceMappings)
       ELSE Answer("GET /v1/events", pre.tenant, tenantId, 200, list, {}, priceMappings)

\* GET /v1/events/backfill/:operationId: the operation with the id.
GetBackfillOperation(apiKeyRaw, operationId) ==
    LET pre == PreHandler(bypass, apiKeyRaw, {"events:read"})
        inMemory == IF bypass
                    THEN {o \in SeqRange(inMemoryBackfillOps) : o.id = operationId}
                    ELSE {}
        found == IF inMemory # {} THEN inMemory
                 ELSE {o \in backfillOps : o.id = operationId}
    IN IF pre.code # 200
       THEN Answer("GET /v1/events/backfill/:operationId", pre.tenant, NoValue, pre.code,
                   {}, {}, priceMappings)
       ELSE IF found = {}
       THEN Answer("GET /v1/events/backfill/:operationId", pre.tenant, NoValue, 404,
                   {}, {}, priceMappings)
       ELSE Answer("GET /v1/events/backfill/:operationId", pre.tenant, NoValue, 200,
                   found, {}, priceMappings)

\* GET /v1/events/backfill: the tenant check, then the caller's operations.
ListBackfill(apiKeyRaw, tenantId) ==
    LET pre == PreHandler(bypass, apiKeyRaw, {"events:read"})
        gate == RequireTenantMatch(bypass, pre.tenant.organisationId, tenantId)
        own == GetTenantId(bypass, pre.tenant.organisationId)
        operations == IF bypass THEN SeqRange(inMemoryBackfillOps)
                      ELSE {o \in backfillOps : o.tenantId = own}
        filtered == {o \in operations : tenantId = NoValue \/ o.tenantId = tenantId}
    IN IF pre.code # 200
       THEN Answer("GET /v1/events/backfill", pre.tenant, tenantId, pre.code, {}, {},
                   priceMappings)
       ELSE IF gate # 200
       THEN Answer("GET /v1/events/backfill", pre.tenant, tenantId, gate, {}, {},
                   priceMappings)
       ELSE Answer("GET /v1/events/backfill", pre.tenant, tenantId, 200, filtered, {},
                   priceMappings)

NextRoutes ==
    \/ \E k \in ApiKeys, t \in ProvidedTenantIds : GetMappings(k, t)
    \/ \E k \in ApiKeys, t \in ProvidedTenantIds, id \in MappingIds : PostMapping(k, t, id)
    \/ \E k \in ApiKeys, id \in MappingIds, u \in MappingUpdates : PutMapping(k, id, u)
    \/ \E k \in ApiKeys, id \in MappingIds : DeleteMapping(k, id)
    \/ \E k \in ApiKeys, t \in ProvidedTenantIds, valid \in BOOLEAN : GetEvents(k, t, valid)
    \/ \E k \in ApiKeys, id \in {"op-1", "op-2", "op-3"} : GetBackfillOperation(k, id)
    \/ \E k \in ApiKeys, t \in ProvidedTenantIds : ListBackfill(k, t)

SpecRoutes == InitRoutes /\ [][NextRoutes]_vars

\* ------------------------------------------------------------ key check
\* The clock is Now0 or the instant after it; nothing else has happened.
InitVerify ==
    /\ bypass = FALSE
    /\ now \in {Now0, AddMs(Now0, 1)}
    /\ IngestIdle
    /\ stripeTest = FALSE
    /\ PushIdle
    /\ listing = <<>>
    /\ DriverIdle
    /\ ReconcileIdle
    /\ AuthIdle
    /\ AggregateIdle
    /\ RouteIdle
    /\ BackfillIdle

\* verifyApiKey runs on a request carrying apiKeyRaw: it replies 401 or
\* sets request.tenant.
VerifyRequest(apiKeyRaw) ==
    /\ Len(verified) < MaxRouteRequests
    /\ LET v == VerifyApiKey(apiKeyRaw)
       IN verified' = Append(verified,
              [apiKeyRaw |-> apiKeyRaw, code |-> v.code, error |-> v.error,
               tenant |-> v.tenant])
    /\ UNCHANGED <<ingestVars, pushVars, driverVars, reconcileVars, backfillVars,
                   routeVars, aggregateVars>>

NextVerify == \E apiKeyRaw \in PresentedKeys : VerifyRequest(apiKeyRaw)

SpecVerify == InitVerify /\ [][NextVerify]_vars

\* ------------------------------------------------------------ aggregation: actions
InitAggregate ==
    /\ bypass = FALSE
    /\ now = Now0
    /\ IngestIdle
    /\ stripeTest = FALSE
    /\ PushIdle
    /\ listing = <<>>
    /\ DriverIdle
    /\ ReconcileIdle
    /\ AuthIdle
    /\ BackfillIdle
    /\ RouteIdle
    /\ processing = {}
    /\ counters = <<>>
    /\ jobSubmissions = {}
    /\ passes = {}
    /\ repliedOk = {}

\* The rest of the ingest handler: addBulk (queueOk: it returns; otherwise
\* it throws and the request ends with 500), then reply.send.  Each job
\* submitted is remembered with the events of its bucket persisted by then,
\* with whether the queue ignored it and whether the job holding the id was
\* being processed.
AddBulkAndReply(r, queueOk) ==
    /\ r \in inflight
    /\ r.code = 200
    /\ inflight' = inflight \ {r}
    /\ IF queueOk
       THEN /\ aggregationQueue' = QueueAddBulk(aggregationQueue, r.jobs)
            /\ addsIgnored' = addsIgnored + Len(aggregationQueue) + Len(r.jobs)
                                  - Len(QueueAddBulk(aggregationQueue, r.jobs))
            /\ acceptedCount' = CountAccepted(acceptedCount,
                   {r.results[k].idempotencyKey :
                       k \in {k \in 1..Len(r.results) : r.results[k].status = "accepted"}})
            /\ jobSubmissions' = jobSubmissions \cup
                   { [jobId |-> job.jobId,
                      seen |-> KeysOf({x \in events :
                                          BucketKey(JobData(x.event)) = job.jobId}),
                      ignored |-> \E k \in 1..Len(aggregationQueue) :
                                      aggregationQueue[k].jobId = job.jobId,
                      active |-> \E j \in processing : j.jobId = job.jobId]
                     : job \in SeqRange(r.jobs) }
            /\ repliedOk' = repliedOk \cup
                   {r.results[k].idempotencyKey : k \in 1..Len(r.results)}
       ELSE /\ r.jobs # <<>>
            /\ UNCHANGED <<aggregationQueue, addsIgnored, acceptedCount, jobSubmissions,
                           repliedOk>>
    /\ UNCHANGED <<bypass, now, events, inMemoryIdempotencyKeys, inMemoryEvents, nextReq>>
    /\ UNCHANGED <<processing, counters, passes>>
    /\ UNCHANGED <<pushVars, driverVars, reconcileVars, backfillVars, routeVars, authVars>>

\* A worker takes a job that is due: the job becomes active, keeps its id
\* in the queue, and the pass reads the events of its bucket.
StartAggregationJob(k) ==
    /\ k \in 1..Len(aggregationQueue)
    /\ \A j \in processing : j.jobId # aggregationQueue[k].jobId
    /\ LET pass == [jobId |-> aggregationQueue[k].jobId,
                    read |-> EventsOfBucket(events, aggregationQueue[k].jobId)]
       IN /\ processing' = processing \cup {pass}
          /\ passes' = passes \cup {pass}
    /\ UNCHANGED <<counters, jobSubmissions, repliedOk>>
    /\ UNCHANGED <<ingestVars, pushVars, driverVars, reconcileVars, backfillVars, routeVars, authVars>>

\* The pass ends: the bucket's counter holds the fold of the events read and
\* the job leaves the queue.
CompleteAggregationJob(j) ==
    /\ j \in processing
    /\ processing' = processing \ {j}
    /\ counters' = [b \in DOMAIN counters \cup {j.jobId} |->
                       IF b = j.jobId THEN AggSum(j.read) ELSE counters[b]]
    /\ aggregationQueue' = SelectSeq(aggregationQueue, LAMBDA job : job.jobId # j.jobId)
    /\ UNCHANGED <<bypass, now, events, inMemoryIdempotencyKeys, inMemoryEvents,
                   addsIgnored, inflight, nextReq, acceptedCount>>
    /\ UNCHANGED <<jobSubmissions, passes, repliedOk>>
    /\ UNCHANGED <<pushVars, driverVars, reconcileVars, backfillVars, routeVars, authVars>>

NextAggregate ==
    \/ \E batch \in AggregateBatches : Ingest("tA", NoValue, batch, TRUE)
    \/ \E r \in inflight, queueOk \in BOOLEAN : AddBulkAndReply(r, queueOk)
    \/ \E k \in 1..Len(aggregationQueue) : StartAggregationJob(k)
    \/ \E j \in processing : CompleteAggregationJob(j)

SpecAggregate == InitAggregate /\ [][NextAggregate]_vars

\* ------------------------------------------------------------ ingest errors
\* Batches with events of two tenants: the only batch in which tenant tA
\* meets a foreign event has a valid event of tA placed before it.
EventOfA == Event("tA", "m", "c1", NoValue, 100, TPast, "k1")
OtherEventOfA == Event("tA", "m", "c2", NoValue, 50, TPast, "k3")
EventOfB == Event("tB", "m", "c1", NoValue, 50, TPast, "k2")
ErrorBatches ==
    {<<EventOfA>>, <<OtherEventOfA>>, <<EventOfA, OtherEventOfA>>, <<EventOfA, EventOfB>>}

InitIngestErrors ==
    /\ bypass \in BOOLEAN
    /\ now = Now0
    /\ IngestIdle
    /\ stripeTest = FALSE
    /\ PushIdle
    /\ listing = <<>>
    /\ DriverIdle
    /\ ReconcileIdle
    /\ AuthIdle
    /\ AggregateIdle
    /\ RouteIdle
    /\ BackfillIdle

NextIngestErrors ==
    \/ \E caller \in Callers(bypass), batch \in ErrorBatches, repoOk \in BOOLEAN :
           Ingest(caller, NoValue, batch, repoOk)
    \/ \E r \in inflight : EnqueueAndReply(r)
    \/ \E r \in inflight : ReplyError(r)

SpecIngestErrors == InitIngestErrors /\ [][NextIngestErrors]_vars

\* ------------------------------------------------------------ properties
\* The requests that went past persistence and are about to enqueue and reply.
Served == {r \in inflight : r.code = 200}
\* The results of a response start with one entry per rejected event (pushed
\* inside the loop, together with the errors entry); the entries of the
\* events sent to persistence follow.
\* The keys a response reports with status error.
ErrorKeysOf(r) ==
    {r.results[k].idempotencyKey :
        k \in {k \in 1..Len(r.errors) : r.results[k].status = "error"}}
\* The statuses a response reports for a key sent to persistence.
StatusesOf(r, key) ==
    {r.results[k].status :
        k \in {k \in (Len(r.errors) + 1)..Len(r.results) : r.results[k].idempotencyKey = key}}
\* The keys of the events a request sent to persistence.
KeysToInsert(r) == {r.eventsToInsert[k].idempotencyKey : k \in 1..Len(r.eventsToInsert)}
\* The keys consumed before a request, in either store and in the store that
\* served it.
Seen(r) == r.seenTable \cup r.seenMemory
SeenInStore(r) == IF r.store = "memory" THEN r.seenMemory ELSE r.seenTable
InsertedKeys(r) == {r.inserted[k].idempotencyKey : k \in 1..Len(r.inserted)}

C2_OneEventPerKeyAnyMode ==
    LET stored == events \cup SeqRange(inMemoryEvents) IN
    /\ \A a, b \in stored : a.event.idempotencyKey = b.event.idempotencyKey => a = b
    /\ \A r1, r2 \in Served :
           r1 # r2 =>
               \A k \in KeysToInsert(r1) \cap KeysToInsert(r2) :
                   /\ ~(k \in InsertedKeys(r1) /\ k \in InsertedKeys(r2))
                   /\ (k \in SeqRange(r1.duplicates) \/ k \in SeqRange(r2.duplicates))
    /\ \A r \in Served : \A k \in KeysToInsert(r) :
           k \in Seen(r) =>
               /\ k \in SeqRange(r.duplicates)
               /\ "duplicate" \in StatusesOf(r, k)
               /\ k \notin ErrorKeysOf(r) \/ \E i \in 1..Len(r.batch) :
                      /\ r.keyed[i].idempotencyKey = k
                      /\ After(r.batch[i].ts, AddMs(now, OneHourMs))

\* C2 (amended): the events table holds at most one event per idempotency
\* key, and so does the in-memory list of bypass mode; with authentication
\* enforced (no bypass mode) the table is the only store, concurrent
\* submissions of one key insert it once and see a duplicate otherwise, and
\* a duplicate is never an error.
C2_OneEventPerKey ==
    /\ \A a, b \in events : a.event.idempotencyKey = b.event.idempotencyKey => a = b
    /\ \A i, j \in DOMAIN inMemoryEvents :
           inMemoryEvents[i].event.idempotencyKey = inMemoryEvents[j].event.idempotencyKey
               => i = j
    /\ ~bypass => C2_OneEventPerKeyAnyMode

\* C2 witness: two requests in flight submitted the same key; one inserted
\* it, the other got a duplicate.
C2_Witness ==
    /\ ~bypass
    /\ \E r1, r2 \in Served :
           /\ r1 # r2
           /\ \E k \in KeysToInsert(r1) \cap KeysToInsert(r2) :
                  /\ k \in InsertedKeys(r1)
                  /\ k \in SeqRange(r2.duplicates)
                  /\ k \in KeysOf(events)

\* A consumed key stays with the payload stored first, whatever store holds
\* it, and a request that submitted a consumed key is told duplicate and
\* inserts nothing under it.
PayloadKept ==
    LET stored == events \cup SeqRange(inMemoryEvents) IN
    /\ \A a, b \in stored : a.event.idempotencyKey = b.event.idempotencyKey
                               => a.event = b.event
    /\ \A r \in Served : \A k \in KeysToInsert(r) :
           k \in Seen(r) => StatusesOf(r, k) = {"duplicate"} /\ k \notin InsertedKeys(r)

\* The same, store by store.
PayloadKeptPerStore ==
    /\ \A a, b \in events : a.event.idempotencyKey = b.event.idempotencyKey
                               => a.event = b.event
    /\ \A a, b \in SeqRange(inMemoryEvents) :
           a.event.idempotencyKey = b.event.idempotencyKey => a.event = b.event
    /\ \A r \in Served : \A k \in KeysToInsert(r) :
           k \in SeenInStore(r) => StatusesOf(r, k) = {"duplicate"} /\ k \notin InsertedKeys(r)

\* No step changes or removes a stored event: the table only grows, the
\* in-memory list is only appended to.
StoredEventsStay ==
    /\ events \subseteq events'
    /\ Len(inMemoryEvents) <= Len(inMemoryEvents')
    /\ SubSeq(inMemoryEvents', 1, Len(inMemoryEvents)) = inMemoryEvents

\* C3 (as the spec states it, every mode): no step changes or removes a
\* stored event, a consumed key is never associated with a second payload,
\* and submitting a consumed key with a different payload is reported
\* duplicate.
C3_PayloadImmutableAnyMode == [][StoredEventsStay /\ PayloadKept']_vars

\* C3 (amended): no step changes or removes a stored event; within one
\* store a consumed key is never associated with a second payload and its
\* resubmission is reported duplicate; with authentication enforced (no
\* bypass mode) the table is the only store, so this holds of the key
\* outright.
C3_PayloadImmutable ==
    [][StoredEventsStay /\ PayloadKeptPerStore' /\ (~bypass => PayloadKept')]_vars

\* C3 witness: a request submitted a consumed key with a quantity other
\* than the stored one, got duplicate, and the stored event is the first.
C3_Witness ==
    /\ ~bypass
    /\ \E r \in Served : \E k \in 1..Len(r.eventsToInsert) : \E row \in events :
           /\ row.event.idempotencyKey = r.eventsToInsert[k].idempotencyKey
           /\ row.event.idempotencyKey \in Seen(r)
           /\ row.event.quantity # r.eventsToInsert[k].quantity
           /\ StatusesOf(r, row.event.idempotencyKey) = {"duplicate"}

\* C4: the key an event is processed under is its own idempotencyKey when
\* it has one, else the request's Idempotency-Key header when there is one,
\* else the key derived from (tenantId, metric, customerRef, resourceId, ts);
\* results and stored events carry that key.
C4_KeyPrecedence ==
    /\ \A r \in Served : \A i \in 1..Len(r.batch) :
           LET e == r.batch[i]
               derived == GenerateIdempotencyKey(r.keyed[i].tenantId, e.metric,
                              e.customerRef, e.resourceId, e.ts)
               key == r.keyed[i].idempotencyKey
           IN /\ e.idempotencyKey # NoValue => key = e.idempotencyKey
              /\ (e.idempotencyKey = NoValue /\ r.header # NoValue) => key = r.header
              /\ (e.idempotencyKey = NoValue /\ r.header = NoValue) => key = derived
              /\ StatusesOf(r, key) # {} \/ key \in ErrorKeysOf(r)
    /\ \A r1, r2 \in Served : \A i \in 1..Len(r1.batch), j \in 1..Len(r2.batch) :
           LET a == r1.batch[i]
               b == r2.batch[j]
           IN (/\ a.idempotencyKey = NoValue /\ b.idempotencyKey = NoValue
               /\ r1.header = NoValue /\ r2.header = NoValue
               /\ r1.keyed[i].tenantId = r2.keyed[j].tenantId
               /\ a.metric = b.metric /\ a.customerRef = b.customerRef
               /\ a.resourceId = b.resourceId /\ a.ts = b.ts)
              => r1.keyed[i].idempotencyKey = r2.keyed[j].idempotencyKey

\* C4 witness: a request with a header carried one event with its own key
\* and one without; the first went under its own key, the second under the
\* header.
C4_Witness ==
    \E r \in Served : \E i, j \in 1..Len(r.batch) :
        /\ r.header = "h1"
        /\ r.batch[i].idempotencyKey = "k1"
        /\ r.keyed[i].idempotencyKey = "k1"
        /\ r.batch[j].idempotencyKey = NoValue
        /\ r.keyed[j].idempotencyKey = "h1"
        /\ "k1" \in KeysOf(events)

\* C5: an event later than now + 1 hour is reported with status error and an
\* errors entry carrying its input index, is never persisted and causes no
\* aggregation job; an event at exactly now + 1 hour or earlier is not
\* rejected, and the other events of the batch are persisted.
C5_FutureRejected ==
    LET limit == AddMs(now, OneHourMs)
        stored == events \cup SeqRange(inMemoryEvents)
    IN
    /\ \A row \in stored : ~After(row.event.ts, limit)
    /\ \A q \in SeqRange(aggregationQueue) :
           \E row \in stored : JobData(row.event) = q.data
    /\ \A r \in Served :
           /\ \A i \in 1..Len(r.batch) :
                  LET key == r.keyed[i].idempotencyKey IN
                  IF After(r.batch[i].ts, limit)
                  THEN /\ \E k \in 1..Len(r.errors) : r.errors[k].index = i - 1
                       /\ key \in ErrorKeysOf(r)
                       /\ \A k \in 1..Len(r.inserted) : r.inserted[k] # r.keyed[i]
                  ELSE /\ \A k \in 1..Len(r.errors) : r.errors[k].index # i - 1
                       /\ r.keyed[i] \in SeqRange(r.eventsToInsert)
                       /\ key \in KeysOf(stored) \cup Seen(r)
                       /\ StatusesOf(r, key) \cap {"accepted", "duplicate"} # {}
                       /\ "accepted" \in StatusesOf(r, key) => key \in KeysOf(stored)
           /\ \A k \in 1..Len(r.jobs) :
                  \E i \in 1..Len(r.batch) :
                      /\ ~After(r.batch[i].ts, limit)
                      /\ JobData(r.keyed[i]) = r.jobs[k].data

\* C5 witness: a batch whose second event is beyond the hour; it is the
\* error at index 1, and the first event of the batch was inserted.
C5_Witness ==
    \E r \in Served :
        /\ Len(r.batch) = 2
        /\ After(r.batch[2].ts, AddMs(now, OneHourMs))
        /\ r.errors = <<[index |-> 1]>>
        /\ Len(r.inserted) = 1
        /\ r.inserted[1] = r.keyed[1]
        /\ r.keyed[1].idempotencyKey \in KeysOf(events)
        /\ r.keyed[2].idempotencyKey \notin KeysOf(events)

\* C6 (as the spec states it): the jobs a request submits are exactly the
\* distinct (tenant, metric, customer, month start) buckets of the events it
\* inserted, one job per bucket, and none when nothing was inserted.
C6_JobsAreInsertedBuckets ==
    \A r \in Served :
        LET buckets == {JobData(e) : e \in SeqRange(r.inserted)} IN
        /\ {j.data : j \in SeqRange(r.jobs)} = buckets
        /\ Len(r.jobs) = Cardinality(buckets)

\* C7: the queue never holds two pending jobs for one bucket; a job's id is
\* the key of its bucket.
C7_OnePendingJobPerBucket ==
    /\ \A p, q \in 1..Len(aggregationQueue) :
           (aggregationQueue[p].data = aggregationQueue[q].data
            \/ aggregationQueue[p].jobId = aggregationQueue[q].jobId) => p = q
    /\ \A p \in 1..Len(aggregationQueue) :
           aggregationQueue[p].jobId = BucketKey(aggregationQueue[p].data)

\* C7 witness: an add for a bucket whose job was pending was ignored, and
\* the job is still pending.
C7_Witness ==
    /\ addsIgnored > 0
    /\ Len(aggregationQueue) = 1
    /\ aggregationQueue[1].data.metric = "m"
    /\ aggregationQueue[1].data.customerRef = "c1"
    /\ inflight = {}
    /\ \E k1, k2 \in DOMAIN acceptedCount : k1 # k2

\* C8: with authentication enforced, every stored event carries the tenant
\* the request's API key resolved to, and nothing lands in the bypass store.
C8_TenantIsolation ==
    ~bypass =>
        /\ \A row \in events : row.event.tenantId = row.caller
        /\ inMemoryEvents = <<>>
        /\ \A r \in inflight : r.code = 200 =>
               \A i \in 1..Len(r.batch) : r.batch[i].tenantId = r.caller

\* C8 witness: tenant tA's event is stored, and a request of tenant tB that
\* carried an event of tA ended with 403.
C8_Witness ==
    /\ ~bypass
    /\ \E row \in events : row.caller = "tA" /\ row.event.tenantId = "tA"
    /\ \E r \in inflight : r.code = 403 /\ r.caller = "tB"

\* The push of 100.5 for tenant T, item S, period 2025-01-01.
PushOfSpec == Push("T", "S", "default", "live", "2025-01-01", 1005000000)

\* C9: the push key is push:<tenantId>:<subscriptionItemId>:<periodStart>:
\* <quantity with exactly six decimals>, the same on every execution of the
\* push; for 100.5 it is push:T:S:2025-01-01:100.500000, for 7 it ends in
\* 7.000000.
C9_PushKeyDeterministic ==
    /\ \A c \in calls :
           LET q == c.push.quantity
               sixDecimals == IF q = 1005000000 THEN "100.500000"
                              ELSE IF q = 1004999996 THEN "100.500000"
                              ELSE IF q = 70000000 THEN "7.000000"
                              ELSE "?"
           IN c.request.options.idempotencyKey =
                  "push:" \o c.push.tenantId \o ":" \o c.push.subscriptionItemId \o ":"
                      \o c.push.periodStart \o ":" \o sixDecimals
    /\ \A c \in calls :
           c.push = PushOfSpec =>
               c.request.options.idempotencyKey = "push:T:S:2025-01-01:100.500000"
    /\ \A c1, c2 \in calls :
           c1.push = c2.push =>
               c1.request.options.idempotencyKey = c2.request.options.idempotencyKey

\* C9 witness: the push of 100.5 ran three times, a day apart, and went out
\* under push:T:S:2025-01-01:100.500000.
C9_Witness ==
    /\ executions[PushOfSpec] = MaxExecutions
    /\ day > 0
    /\ \E c \in calls :
           /\ c.push = PushOfSpec
           /\ c.request.options.idempotencyKey = "push:T:S:2025-01-01:100.500000"

\* C10: however often one push is executed, every execution sends the same
\* key and the same payload (the rounded quantity, the midnight-UTC
\* timestamp of the period), and the provider's usage for the item and
\* period is the rounded quantity of a push it was sent, once: never a sum
\* over executions.
C10_PushAtLeastOnce ==
    /\ \A c1, c2 \in calls : c1.push = c2.push => c1.request = c2.request
    /\ \A m \in pushRequests : [push |-> m.push, request |-> m.request] \in calls
    /\ \A c \in calls :
           /\ c.request.body.quantity =
                  (IF c.push.quantity = 70000000 THEN 7
                   ELSE IF c.push.quantity = 1005000000 THEN 101 ELSE 100)
           /\ c.request.body.timestamp =
                  (IF c.push.periodStart = "2025-01-01" THEN 1735689600 ELSE 1738368000)
           /\ c.request.subscriptionItemId = c.push.subscriptionItemId
    /\ \A slot \in DOMAIN providerUsage :
           LET sent == {c \in calls : delivered[c.push] > 0 /\ Slot(c.request) = slot}
           IN /\ providerUsage[slot] \in {c.request.body.quantity : c \in sent}
              /\ \A c \in sent :
                     sent = {c} => providerUsage[slot] = c.request.body.quantity

\* C10 witness: the provider answered the push of 100.5 three times, with a
\* day in between, no other push reached that item and period, and its
\* usage is 101.
C10_Witness ==
    /\ delivered[PushOfSpec] = MaxExecutions
    /\ day > 0
    /\ \A p \in PushPool \ {PushOfSpec} : delivered[p] = 0
    /\ \E slot \in DOMAIN providerUsage :
           /\ slot.item = "S"
           /\ slot.timestamp = 1735689600
           /\ providerUsage[slot] = 101

\* ------------------------------------------------- properties of the driver
\* The call under way, or the last one made, is a summary call.
Summing == drv.op = "getUsageSummary"
\* A status the spec names as retried: 429 or 5xx.
RateLimitOrServerError(status) == status = 429 \/ status \in 500..599
\* Every error the call caught had such a status.
AllRetryable == \A k \in 1..Len(drv.failures) : RateLimitOrServerError(drv.failures[k])
\* The delays of a call that is retried to the end.
AllDelays == [k \in 1..MaxRetries |-> DelayMs(k - 1)]
\* A sequence is the start of another.
IsPrefix(s, t) == Len(s) <= Len(t) /\ \A k \in 1..Len(s) : s[k] = t[k]
\* The usage of the first n summaries the provider holds, null counting 0.
RECURSIVE UsageOfFirst(_)
UsageOfFirst(n) ==
    IF n = 0 THEN 0
    ELSE UsageOfFirst(n - 1) + (IF listing[n] = NullUsage THEN 0 ELSE listing[n])

\* C11: a summary call whose first two attempts fail with status 429 makes a
\* third attempt, and when that one succeeds the call returns its result
\* after exactly three attempts: a success ends the call, so a returned call
\* has made one attempt more than it caught errors, and a call is never
\* given up after one or two 429 answers.
C11_RetryThenSucceed ==
    Summing =>
        /\ (Len(drv.failures) >= 2 /\ drv.failures[1] = 429 /\ drv.failures[2] = 429)
               => drv.attempts >= 3
        /\ drv.pc = "returned" => drv.attempts = Len(drv.failures) + 1
        /\ (drv.pc = "returned" /\ drv.failures = <<429, 429>>)
               => drv.attempts = 3 /\ drv.delays = <<250, 500>> /\ drv.error = NoError
        /\ (drv.pc = "thrown" /\ Len(drv.failures) <= 2)
               => drv.failures[Len(drv.failures)] # 429
\* C11 witness: a summary call returned a total after 429, 429, success.
C11_Witness ==
    /\ Summing
    /\ drv.pc = "returned"
    /\ drv.failures = <<429, 429>>
    /\ drv.attempts = 3
    /\ drv.result > 0

\* C12 (as the spec states it): when every attempt of a summary call fails
\* with 429 or 5xx, the call makes at most three attempts, waiting 250 ms and
\* then 500 ms between them.
C12_ThreeAttempts ==
    (Summing /\ AllRetryable) =>
        /\ drv.attempts <= 3
        /\ IsPrefix(drv.delays, <<250, 500>>)
\* C12 (amended): when every attempt of a summary call fails with 429 or
\* 5xx, the call makes four attempts, the first and three retries, waiting
\* 250 ms, 500 ms and 1000 ms between them, and then throws the last error;
\* no call makes more than four attempts.
C12_FourAttempts ==
    Summing =>
        /\ drv.attempts <= MaxRetries + 1
        /\ IsPrefix(drv.delays, <<250, 500, 1000>>)
        /\ drv.delays = [k \in 1..(drv.attempts - 1) |-> AllDelays[k]]
        /\ (drv.pc = "thrown" /\ AllRetryable) =>
               /\ drv.attempts = 4
               /\ drv.delays = <<250, 500, 1000>>
               /\ Len(drv.failures) = 4
               /\ StatusOf(drv.error) = drv.failures[4]
\* C12 witness: a summary call threw after four attempts that all failed
\* with 429 or 5xx.
C12_Witness ==
    /\ Summing
    /\ drv.pc = "thrown"
    /\ AllRetryable
    /\ drv.attempts = 4
    /\ drv.failures[1] = 429
    /\ drv.failures[4] = 500

\* C13: an error whose status is neither 429 nor 5xx ends the call at once:
\* it is the last error the call catches, it is the error thrown, and no
\* delay follows it; on the first attempt the call has made exactly one
\* attempt and waited for nothing. The calls that make one request never
\* make a second.
C13_NoRetryOnOtherErrors ==
    /\ \A k \in 1..Len(drv.failures) :
           ~RateLimitOrServerError(drv.failures[k]) =>
               /\ k = Len(drv.failures)
               /\ drv.pc = "thrown"
               /\ StatusOf(drv.error) = drv.failures[k]
               /\ drv.attempts = k
               /\ Len(drv.delays) = k - 1
    /\ (drv.failures # <<>> /\ ~RateLimitOrServerError(drv.failures[1])) =>
           drv.attempts = 1 /\ drv.delays = <<>>
    /\ ~Summing => drv.attempts <= 1 /\ drv.delays = <<>>
\* C13 witness: a summary call threw a 400 after one attempt and no delay.
C13_Witness ==
    /\ Summing
    /\ drv.pc = "thrown"
    /\ drv.failures = <<400>>
    /\ drv.attempts = 1
    /\ drv.delays = <<>>
    /\ drv.error = ApiError(400, 0)

\* C14: without a test credential, recordUsage with mode test,
\* createTestClock and advanceTestClock throw the configuration error and no
\* request goes to any client, the live one included; with the credential
\* their request goes to the test client only, and a call with mode live
\* uses the live client only.
C14_ModeSeparation ==
    /\ (drv.op \in {"recordUsage", "createTestClock", "advanceTestClock"} /\ drv.mode = "test") =>
           IF stripeTest
           THEN drv.clients = {"test"} /\ drv.error # ConfigError
           ELSE /\ drv.pc = "thrown"
                /\ drv.error = ConfigError
                /\ drv.clients = {}
                /\ drv.attempts = 0
    /\ drv.op \in {"createTestClock", "advanceTestClock"} => drv.mode = "test"
    /\ (drv.op # "none" /\ drv.mode = "live") =>
           drv.clients \subseteq {"live"} /\ drv.error # ConfigError
\* C14 witness: recordUsage with mode test threw the configuration error
\* without a request, there being no test credential.
C14_Witness ==
    /\ ~stripeTest
    /\ drv.op = "recordUsage"
    /\ drv.mode = "test"
    /\ drv.pc = "thrown"
    /\ drv.error = ConfigError
    /\ drv.clients = {}

\* C15 (as the spec states it): the total a summary call returns is the sum
\* of total_usage over every summary the provider holds for the item,
\* whatever the number of pages.
C15_TotalOverEveryPage ==
    (Summing /\ drv.pc = "returned") => drv.result = UsageOfFirst(Len(listing))
\* C15 (amended): the total a summary call returns is the sum of total_usage,
\* null counting 0, over the summaries of the first five pages the provider
\* lists: every summary when there are at most five pages, the first five
\* pages only when there are more.
C15_TotalOverFivePages ==
    (Summing /\ drv.pc = "returned") =>
        /\ drv.result = UsageOfFirst(IF Len(listing) <= MaxPages * PageSize
                                     THEN Len(listing) ELSE MaxPages * PageSize)
        /\ Len(listing) <= MaxPages * PageSize => drv.result = UsageOfFirst(Len(listing))
\* C15 witness: a summary call returned the sum over three pages, one of
\* them holding a summary whose total_usage is null.
C15_Witness ==
    /\ Summing
    /\ drv.pc = "returned"
    /\ Len(listing) = 3 * PageSize
    /\ listing[2] = NullUsage
    /\ drv.i = 2
    /\ drv.result = 2 * SomeUsage + (3 * PageSize - 3) * SomeUsage

\* --------------------------------------------- properties of the reconciler
\* The positions of the reports.
Reports == 1..Len(reconciliationReports)
\* The reports a run wrote for a mapping.
RowsOf(id, m) ==
    {k \in Reports : reconciliationReports[k].run = id /\ reconciliationReports[k].mapping = m}
\* The runs under way on a worker.
RunsOf(w) == {run \in runs : run.worker = w}

\* C16: in fake mode every report has providerTotal = localTotal x (1 - d)
\* and no run asks the provider for usage; a local total of 150 with
\* d = 0.10 gives a provider total of 135 and a diff of 15.
C16_FakeDrift ==
    reconciliationFake =>
        /\ stripeUsageCalls = {}
        /\ \A k \in Reports :
               LET r == reconciliationReports[k] IN
               /\ r.synthesized
               /\ r.stripeTotal * 100 = r.localTotal * (100 - fakeDriftPct)
               /\ (r.localTotal = 150 /\ fakeDriftPct = 10) =>
                      r.stripeTotal = 135 /\ r.diff = 15
\* C16 witness: a fake run with d = 0.10 reported 150, 135 and 15.
C16_Witness ==
    /\ reconciliationFake
    /\ fakeDriftPct = 10
    /\ \E k \in Reports :
           /\ reconciliationReports[k].localTotal = 150
           /\ reconciliationReports[k].stripeTotal = 135
           /\ reconciliationReports[k].diff = 15

\* C17 (as the spec states it): every report has
\* diff = providerTotal - localTotal.
C17_DiffProviderMinusLocalTotal ==
    \A k \in Reports :
        reconciliationReports[k].diff
            = reconciliationReports[k].stripeTotal - reconciliationReports[k].localTotal
\* C17 (amended): every report's diff is the difference of its two totals
\* in size, and it is localTotal - providerTotal, not negative, whenever the
\* provider total does not exceed the local total.
C17_DiffLocalMinusProvider ==
    \A k \in Reports :
        LET r == reconciliationReports[k] IN
        /\ r.diff \in {r.localTotal - r.stripeTotal, r.stripeTotal - r.localTotal}
        /\ r.stripeTotal <= r.localTotal => r.diff = r.localTotal - r.stripeTotal
\* C17 witness: a report whose provider total is half its local total and
\* whose diff is the positive half.
C17_Witness ==
    \E k \in Reports :
        /\ reconciliationReports[k].localTotal = 150
        /\ reconciliationReports[k].stripeTotal = 75
        /\ reconciliationReports[k].diff = 75

\* C18: with the fake flag unset no report carries a synthesized provider
\* total: the total of every report is what the provider answered to a
\* usage call the run made for that mapping.
C18_ProviderPathWithoutFlag ==
    ~reconciliationFake =>
        \A k \in Reports :
            LET r == reconciliationReports[k] IN
            /\ ~r.synthesized
            /\ r.stripeTotal = stripeUsage
            /\ <<r.run, r.mapping>> \in stripeUsageCalls
\* C18 witness: without the flag, and with a drift fraction configured, a
\* run reported the provider's total of 200 for a local total of 40.
C18_Witness ==
    /\ ~reconciliationFake
    /\ fakeDriftPct = 50
    /\ stripeUsage = 200
    /\ \E k \in Reports :
           /\ reconciliationReports[k].localTotal = 40
           /\ reconciliationReports[k].stripeTotal = 200
           /\ <<reconciliationReports[k].run, "m2">> \in stripeUsageCalls

\* C19: reports are append-only. No step, whichever worker takes it, changes
\* or removes a row written earlier; a run writes one row for each mapping
\* it has reconciled, so a run that has ended has written exactly one row
\* per mapping.
C19_ReportsAppendOnly ==
    /\ [][IsPrefix(reconciliationReports, reconciliationReports')]_vars
    /\ [](/\ \A run \in runs : \A m \in Mappings :
                 Cardinality(RowsOf(run.id, m)) = IF m \in run.todo THEN 0 ELSE 1
          /\ \A id \in 1..triggers : \A m \in Mappings :
                 /\ Cardinality(RowsOf(id, m)) <= 1
                 /\ (\A run \in runs : run.id # id) =>
                        Cardinality(RowsOf(id, m)) = Cardinality(RowsOf(id, "m1")))
\* C19 witness: two workers ran at the same time and their rows for the same
\* mapping lie interleaved in the table.
C19_Witness ==
    /\ Len(reconciliationReports) >= 3
    /\ reconciliationReports[1].worker = "w1"
    /\ reconciliationReports[2].worker = "w2"
    /\ reconciliationReports[3].worker = "w1"
    /\ reconciliationReports[1].mapping = reconciliationReports[2].mapping

\* C20: a worker has at most one run under way, and is running exactly
\* while it has one; a trigger, on demand or scheduled, starts a run exactly
\* when the worker was not running.
C20_SingleFlight ==
    /\ \A w \in Workers :
           /\ Cardinality(RunsOf(w)) <= 1
           /\ isRunning[w] <=> RunsOf(w) # {}
    /\ triggers > 0 => (lastTrigger.started <=> ~lastTrigger.wasRunning)
\* C20 witness: triggerOnDemand on a worker in the middle of a run started
\* nothing, the other worker running as well.
C20_Witness ==
    /\ triggers > 0
    /\ lastTrigger.by = "triggerOnDemand"
    /\ lastTrigger.worker = "w1"
    /\ lastTrigger.wasRunning
    /\ ~lastTrigger.started
    /\ \E run \in RunsOf("w1") : run.todo = {"m2"}
    /\ RunsOf("w2") # {}

\* ------------------------------------------- properties of the ingest reply
\* The positions of a batch whose event is rejected for its timestamp.
Rejected(r) == {i \in 1..Len(r.batch) : TooFarInFuture(r.batch[i].ts, now)}
\* The number of entries of results with a status, and with a key.
CountStatus(r, status) ==
    Cardinality({k \in 1..Len(ReplyBody(r).results) : ReplyBody(r).results[k].status = status})
CountKey(r, key) ==
    Cardinality({k \in 1..Len(ReplyBody(r).results) :
                    ReplyBody(r).results[k].idempotencyKey = key})
\* The persisted events, in the table and in the in-memory store.
Persisted == {row.event : row \in events} \cup {inMemoryEvents[k].event : k \in 1..Len(inMemoryEvents)}

\* C26: every event of a schema-valid batch has exactly one entry in
\* results, under its idempotency key and with status accepted, duplicate or
\* error, the rejected events with status error; errors holds exactly the
\* input indices of the rejected events, in increasing order.
C26_OneResultPerEvent ==
    \A r \in Served :
        LET body == ReplyBody(r) IN
        /\ Len(body.results) = Len(r.batch)
        /\ \A k \in 1..Len(body.results) :
               body.results[k].status \in {"accepted", "duplicate", "error"}
        /\ \A i \in 1..Len(r.batch) :
               CountKey(r, r.keyed[i].idempotencyKey)
                   = Cardinality({j \in 1..Len(r.batch) :
                                     r.keyed[j].idempotencyKey = r.keyed[i].idempotencyKey})
        /\ CountStatus(r, "error") = Cardinality(Rejected(r))
        /\ {body.errors[k].index + 1 : k \in 1..Len(body.errors)} = Rejected(r)
        /\ Len(body.errors) = Cardinality(Rejected(r))
        /\ \A k \in 1..(Len(body.errors) - 1) : body.errors[k].index < body.errors[k + 1].index
\* C26 witness: a batch of two whose first event is rejected and whose
\* second is accepted: two results, and errors holding index 0.
C26_Witness ==
    \E r \in Served :
        /\ Len(r.batch) = 2
        /\ Rejected(r) = {1}
        /\ ReplyBody(r).errors = <<[index |-> 0]>>
        /\ CountStatus(r, "error") = 1
        /\ CountStatus(r, "accepted") = 1

\* C27: in every response the entries of results with status accepted are
\* as many as the accepted count, and those with status duplicate as many
\* as the duplicates count.
C27_CountsMatchResults ==
    \A r \in Served :
        /\ CountStatus(r, "accepted") = ReplyBody(r).accepted
        /\ CountStatus(r, "duplicate") = ReplyBody(r).duplicates

\* C28: events of one batch that lack their own key and differ in metric,
\* customer or timestamp are each persisted as an event of their own, also
\* when the request carries an Idempotency-Key header.
C28_HeaderKeepsEventsApart ==
    \A r \in Served :
        r.header # NoValue =>
            \A i, j \in 1..Len(r.batch) \ Rejected(r) :
                (/\ i # j
                 /\ r.batch[i].idempotencyKey = NoValue
                 /\ r.batch[j].idempotencyKey = NoValue
                 /\ <<r.batch[i].metric, r.batch[i].customerRef, r.batch[i].ts>>
                        # <<r.batch[j].metric, r.batch[j].customerRef, r.batch[j].ts>>)
                => \E e \in Persisted :
                       <<e.metric, e.customerRef, e.ts>>
                           = <<r.batch[j].metric, r.batch[j].customerRef, r.batch[j].ts>>

\* ------------------------------------------------ properties of the backfill
BackfillReplied == {backfillReplies[k] : k \in 1..Len(backfillReplies)}
\* The operation records of both stores, and the jobs of the queue.
StoredOperations == backfillOps \cup SeqRange(inMemoryBackfillOps)
QueuedBackfillJobs(id) == {k \in 1..Len(backfillQueue) : backfillQueue[k].jobId = id}
\* A request that got past the tenant check and the schema.
PastValidation(r) == r.code \notin {401, 403} /\ r.error # "Validation Error"
\* The request supplies neither an events array nor csv data.
NoSource(r) == ~r.body.events.isArray /\ r.body.csvData = NoValue
\* The size of the payload a request supplies.
PayloadSize(r) ==
    IF r.body.events.isArray THEN Len(JsonStringify(r.body.events.items))
    ELSE Len(r.body.csvData)

\* C23: a backfill request that supplies neither events nor csvData is
\* answered 400 and one whose payload exceeds the maximum direct size is
\* answered 413; neither creates an operation record nor submits a job, and
\* every record and every job there is was created by a request that was
\* not rejected.
C23_RejectedBackfillLeavesNothing ==
    /\ \A r \in BackfillReplied :
           /\ (PastValidation(r) /\ NoSource(r)) => r.code = 400
           /\ (PastValidation(r) /\ ~NoSource(r) /\ PayloadSize(r) > MaxDirectBackfillSize)
                  => r.code = 413
           /\ r.code \in {400, 413} => r.created = <<>> /\ r.submitted = <<>>
    /\ \A op \in StoredOperations :
           \E r \in BackfillReplied : r.code \notin {400, 413} /\ op \in SeqRange(r.created)
    /\ \A k \in 1..Len(backfillQueue) :
           \E r \in BackfillReplied :
               r.code \notin {400, 413} /\ backfillQueue[k] \in SeqRange(r.submitted)
\* C23 witness: one request was answered 413, another 400 for its missing
\* source, and there is no operation record and no job.
C23_Witness ==
    /\ Len(backfillReplies) = 2
    /\ backfillReplies[1].code = 413
    /\ backfillReplies[2].code = 400
    /\ backfillReplies[2].error = "Invalid Request"
    /\ StoredOperations = {}
    /\ backfillQueue = <<>>

\* C24: a backfill request answered with success created exactly one
\* operation record, with status pending, and submitted one job whose job
\* id is the id of that operation; the queue holds one job with that id and
\* never two, however often the job is submitted again.
C24_OneJobPerOperation ==
    /\ \A r \in BackfillReplied :
           r.code = 200 =>
               /\ Len(r.created) = 1
               /\ r.created[1].status = "pending"
               /\ r.created[1].id = r.operationId
               /\ Len(r.submitted) = 1
               /\ r.submitted[1].jobId = r.operationId
               /\ IF bypass
                  THEN Cardinality({k \in 1..Len(inMemoryBackfillOps) :
                                       inMemoryBackfillOps[k].id = r.operationId}) = 1
                  ELSE Cardinality({op \in backfillOps : op.id = r.operationId}) = 1
               /\ Cardinality(QueuedBackfillJobs(r.operationId)) = 1
               /\ \A q \in BackfillReplied :
                      (q.code = 200 /\ q.req # r.req) => q.operationId # r.operationId
    /\ \A k \in 1..Len(backfillQueue) :
           Cardinality(QueuedBackfillJobs(backfillQueue[k].jobId)) = 1
\* C24 witness: a request was answered with success and its job was
\* submitted a second time; the queue holds the one job.
C24_Witness ==
    /\ ~bypass
    /\ Len(backfillReplies) = 1
    /\ backfillReplies[1].code = 200
    /\ backfillSteps = 2
    /\ Len(backfillQueue) = 1
    /\ backfillQueue[1].jobId = backfillReplies[1].operationId

\* ------------------------------------------------ properties of the routes
RouteReplied == {routeReplies[k] : k \in 1..Len(routeReplies)}
\* The request names a tenant other than the one it is authenticated for.
CrossTenant(r) ==
    /\ r.organisationId # NoValue
    /\ r.providedTenantId # NoValue
    /\ r.providedTenantId # r.organisationId

\* C25: outside bypass mode, a request authenticated for one tenant that
\* names another tenant is answered 403 and has read and written nothing,
\* and a request without a tenant context is answered 401 and has read and
\* written nothing.
C25_CrossTenantRefused ==
    \A r \in RouteReplied :
        ~bypass =>
            /\ CrossTenant(r) => r.code = 403 /\ r.read = {} /\ r.written = {}
            /\ r.organisationId = NoValue => r.code = 401 /\ r.read = {} /\ r.written = {}

AllAnswered == inflight = {}
\* Every request has been answered and every queued job has run.
AllJobsRun == inflight = {} /\ aggregationQueue = <<>> /\ processing = {}
\* The bucket of a persisted event, as the job id names it.
BucketOf(e) == BucketKey(JobData(e))
\* The sum-mode local total of the mapping for tenant tA and metric m: the
\* aggSum of the counters of its customers, added up.
RECURSIVE SumCounters(_)
SumCounters(bs) ==
    IF bs = {} THEN 0
    ELSE LET b == CHOOSE x \in bs : TRUE IN counters[b] + SumCounters(bs \ {b})
AggregatedLocalTotal == SumCounters(DOMAIN counters)

\* C29: once every request has been answered and every event whose request
\* failed at the enqueue step has been sent again in a request answered
\* 200, every persisted event has had an aggregation job for its bucket
\* submitted when it was already persisted.
C29_PersistedEventHasJobSubmitted ==
    (AllAnswered /\ \A r \in events : r.event.idempotencyKey \in repliedOk) =>
        \A r \in events :
            \E sub \in jobSubmissions :
                sub.jobId = BucketOf(r.event) /\ r.event.idempotencyKey \in sub.seen

\* C30: once every request has been answered and every queued job has run,
\* every persisted event whose job the queue ignored, because a job with
\* the id of its bucket was pending or being processed, has been read by an
\* aggregation pass of its bucket.
C30_IgnoredSubmissionStillCovered ==
    AllJobsRun =>
        \A r \in events :
            (\E sub \in jobSubmissions :
                 /\ sub.ignored
                 /\ sub.jobId = BucketOf(r.event)
                 /\ r.event.idempotencyKey \in sub.seen)
            => \E pass \in passes :
                   pass.jobId = BucketOf(r.event) /\ r.event \in pass.read

\* C21: once every request has been answered, every persisted event has
\* been part of a request answered 200 and every queued job has run, the
\* sum-mode local total equals the sum of the quantities of the persisted
\* events, each key counted once.
C21_LocalTotalIsPersistedSum ==
    (AllJobsRun /\ \A r \in events : r.event.idempotencyKey \in repliedOk) =>
        AggregatedLocalTotal = AggSum({r.event : r \in events})

\* ------------------------------------------------ properties of failing ingests
\* What a request leaves behind: the stores and the queue.
Persistent == <<events, inMemoryIdempotencyKeys, inMemoryEvents, aggregationQueue>>
\* The batch holds an event that declares another tenant than the caller.
ForeignEvent(batch, caller) == \E i \in 1..Len(batch) : batch[i].tenantId # caller
\* The records the step added for requests on their way.
Started == inflight' \ inflight

\* C31: outside bypass mode, a request whose batch holds an event of another
\* tenant ends with 403, persists no event of the batch, not even the valid
\* ones before the foreign event, and prepares no job; answering it changes
\* neither the stores nor the queue.
C31_ForeignEventRefusesBatch ==
    /\ [][~bypass =>
            \A caller \in {"tA", "tB"}, batch \in ErrorBatches, repoOk \in BOOLEAN :
                (ForeignEvent(batch, caller) /\ Ingest(caller, NoValue, batch, repoOk)) =>
                    /\ \E r \in Started :
                           /\ r.code = 403 /\ r.caller = caller
                           /\ r.inserted = <<>> /\ r.jobs = <<>>
                    /\ UNCHANGED Persistent]_vars
    /\ [][\A r \in inflight : (r.code = 403 /\ ReplyError(r)) => UNCHANGED Persistent]_vars
    /\ [](~bypass => \A row \in events : row.event.tenantId = row.caller)
\* C31 witness: tenant tA's request with a valid event followed by an event
\* of tenant tB ended with 403; nothing is stored or queued.
C31_Witness ==
    /\ ~bypass
    /\ nextReq = 1
    /\ \E r \in inflight : r.code = 403 /\ r.caller = "tA"
    /\ Cardinality(inflight) = 1
    /\ events = {}
    /\ aggregationQueue = <<>>

\* C32: outside bypass mode a request whose batch cannot be persisted ends
\* with 500, with no results, no inserted or duplicate events and no jobs,
\* and leaves the stores and the queue as they were; in bypass mode the
\* failure is absorbed, the request goes on with 200 and its events are
\* deduplicated against the in-memory keys, the table staying as it was.
C32_PersistFailureFailsRequest ==
    [][\A caller \in Callers(bypass), batch \in ErrorBatches :
           (~ForeignEvent(batch, caller) \/ bypass) /\ Ingest(caller, NoValue, batch, FALSE) =>
               IF ~bypass
               THEN /\ \E r \in Started :
                           /\ r.code = 500
                           /\ r.results = <<>> /\ r.inserted = <<>>
                           /\ r.duplicates = <<>> /\ r.jobs = <<>>
                    /\ UNCHANGED Persistent
               ELSE /\ \E r \in Started :
                           /\ r.code = 200
                           /\ r.store = "memory"
                           /\ Len(r.inserted) + Len(r.duplicates) = Len(batch)
                           /\ \A k \in 1..Len(r.duplicates) :
                                  r.duplicates[k] \in inMemoryIdempotencyKeys
                           /\ \A k \in 1..Len(r.inserted) :
                                  r.inserted[k].idempotencyKey \notin inMemoryIdempotencyKeys
                    /\ inMemoryIdempotencyKeys' =
                           inMemoryIdempotencyKeys \cup {batch[i].idempotencyKey : i \in 1..Len(batch)}
                    /\ UNCHANGED events]_vars
\* C32 witness: outside bypass mode one request stored an event and the
\* next, which could not be persisted, ended with 500; the first one's event
\* and job are all there is.
C32_Witness ==
    /\ ~bypass
    /\ nextReq = 2
    /\ \E r \in inflight : r.code = 500
    /\ Cardinality(events) = 1
    /\ Len(aggregationQueue) = 1

\* ------------------------------------------- properties of recordUsage
\* C33: calls of recordUsage with the same parameters send the same request;
\* each request carries the midnight-UTC timestamp of periodStart, the
\* quantity rounded to the nearest integer, the action set and the key it
\* was given; the account option is the account when stripeAccount is not
\* 'default' and absent when it is.
C33_RecordUsageDeterministic ==
    /\ \A c1, c2 \in calls :
           WriterParams(c1.push) = WriterParams(c2.push) => c1.request = c2.request
    /\ \A c \in calls :
           LET params == WriterParams(c.push)
               req == c.request
           IN /\ req.body.timestamp % 86400 = 0
              /\ req.body.timestamp =
                     (IF params.periodStart = "2025-01-01" THEN 1735689600
                      ELSE 1738368000)
              /\ 2 * (10000000 * req.body.quantity - params.quantity) <= 10000000
              /\ 2 * (params.quantity - 10000000 * req.body.quantity) < 10000000
              /\ req.body.action = "set"
              /\ req.options.idempotencyKey = params.idempotencyKey
              /\ (req.options.stripeAccount # NoValue) <=> (params.stripeAccount # "default")
              /\ params.stripeAccount # "default" =>
                     req.options.stripeAccount = params.stripeAccount

\* C33 witness: the push of 100.5 on the default account was sent twice and
\* the push on acct_1 once.
C33_Witness ==
    /\ \E c \in calls :
           /\ c.push.stripeAccount = "default"
           /\ c.push.quantity = 1005000000
           /\ executions[c.push] >= 2
           /\ c.request.options.stripeAccount = NoValue
    /\ \E c \in calls :
           /\ c.push.stripeAccount = "acct_1"
           /\ c.request.options.stripeAccount = "acct_1"

\* C34: a recordUsage call that failed with status 429 or 5xx was retried by
\* the driver before the error reached the caller: the call that threw such
\* an error made more than one request.
C34_RecordUsageRetried ==
    (/\ drv.op = "recordUsage"
     /\ drv.pc = "thrown"
     /\ drv.error.kind = "api"
     /\ (StatusOf(drv.error) = 429
            \/ (StatusOf(drv.error) >= 500 /\ StatusOf(drv.error) < 600)))
        => drv.attempts > 1

\* ------------------------------------- properties of getUsageSummary
\* The usage the provider holds for a period of the item, null counting 0.
UsageOfPeriod(period) ==
    IF period \in 1..Len(listing) /\ listing[period] # NullUsage THEN listing[period] ELSE 0
\* The usage of the summaries with the ids given, one term per id listed.
RECURSIVE UsageOfIds(_)
UsageOfIds(ids) ==
    IF ids = <<>> THEN 0
    ELSE (IF listing[Head(ids)] = NullUsage THEN 0 ELSE listing[Head(ids)])
             + UsageOfIds(Tail(ids))

\* C35: the total a summary call returns is the usage of the period it was
\* asked for: the summaries of the item's other periods add nothing to it.
C35_TotalOfRequestedPeriod ==
    (Summing /\ drv.pc = "returned") => drv.result = UsageOfPeriod(drv.periodStart)

\* The provider calls a summary call may still make: one retrieve and
\* MaxPages list requests for every attempt it may still begin, and what is
\* left of the attempt under way.
CallsLeft ==
    IF ~Summing \/ drv.pc \notin {"retrieve", "list"} THEN 0
    ELSE (MaxRetries - drv.attempt) * (MaxPages + 1)
             + (IF drv.pc = "retrieve" THEN MaxPages + 1 ELSE MaxPages - drv.i)

\* C36: a summary call ends after a bounded number of provider calls.  Every
\* provider call of it lowers CallsLeft, which starts at
\* (MaxRetries + 1) x (MaxPages + 1) and is never negative; no attempt makes
\* a list request after its fifth, has_more or not, and no call begins more
\* than MaxRetries + 1 attempts, whatever fails.
C36_BoundedProviderCalls ==
    /\ [][(Summing /\ drv.pc \in {"retrieve", "list"} /\ drv' # drv)
             => CallsLeft' < CallsLeft]_vars
    /\ [](Summing =>
             /\ CallsLeft >= 0
             /\ CallsLeft <= (MaxRetries + 1) * (MaxPages + 1)
             /\ drv.pc = "list" => drv.i < MaxPages
             /\ drv.i <= MaxPages
             /\ Len(drv.counted) <= MaxPages * PageSize
             /\ drv.attempts <= MaxRetries + 1)

\* C36 witness: the provider holds more summaries than five pages take, three
\* attempts failed with 429 or 5xx, and the fourth returned after its
\* fifth list request, which still said has_more.
C36_Witness ==
    /\ Summing
    /\ drv.pc = "returned"
    /\ Len(listing) > MaxPages * PageSize
    /\ drv.attempts = MaxRetries + 1
    /\ AllRetryable
    /\ drv.i = MaxPages
    /\ Len(drv.counted) = MaxPages * PageSize

\* C37: when an attempt of a summary call failed after it had added up
\* usage, the total the call returns later is the usage of the summaries
\* the returning attempt read, and nothing more.
C37_FailedAttemptDiscarded ==
    (Summing /\ drv.pc = "returned" /\ drv.discarded) =>
        /\ drv.result = UsageOfIds(drv.counted)
        /\ drv.counted = [k \in 1..Len(drv.counted) |-> k]

\* C37 witness: an attempt failed with 429 after it had added up usage, and
\* the next attempt returned the usage of the three summaries it read.
C37_Witness ==
    /\ Summing
    /\ drv.pc = "returned"
    /\ drv.discarded
    /\ drv.failures = <<429>>
    /\ Len(drv.counted) = 3
    /\ drv.result = 3 * SomeUsage

\* The usage of a set of summaries, each taken once.
RECURSIVE UsageOfSet(_)
UsageOfSet(ids) ==
    IF ids = {} THEN 0
    ELSE LET id == CHOOSE x \in ids : TRUE
         IN (IF listing[id] = NullUsage THEN 0 ELSE listing[id]) + UsageOfSet(ids \ {id})

\* C38: no summary is added more than once to the total a summary call
\* returns, whatever pages the provider answers with, a page marked
\* has_more with no summary on it included: the total is the usage of the
\* summaries the attempt read, each taken once.
C38_NoSummaryCountedTwice ==
    (Summing /\ drv.pc = "returned") =>
        drv.result = UsageOfSet({drv.counted[k] : k \in 1..Len(drv.counted)})

\* ------------------------------------------ properties of the mapping routes
\* C39: outside bypass mode, every request that changes or deletes a
\* mapping is authenticated as the tenant that owns the mapping, and every
\* mapping a request creates is owned by the tenant the request is
\* authenticated as.
C39_OnlyOwnerWritesMapping ==
    [][~bypass =>
          LET by == routeReplies'[Len(routeReplies')].organisationId
          IN /\ \A m \in priceMappings \ priceMappings' : m.tenantId = by
             /\ \A m \in priceMappings' \ priceMappings :
                    (\A o \in priceMappings : o.id # m.id) => m.tenantId = by]_vars

\* ------------------------------------------------ properties of the key check
\* The key a request presents, without a leading 'Bearer '.
PresentedKey(r) ==
    IF Len(r.apiKeyRaw) >= 7 /\ SubSeq(r.apiKeyRaw, 1, 7) = BearerPrefix
    THEN SubSeq(r.apiKeyRaw, 8, Len(r.apiKeyRaw))
    ELSE r.apiKeyRaw
\* The rows whose stored hash is the hash of the key and that are active,
\* not revoked, and not expired at the clock.
UsableRowsOf(key) ==
    {k \in ApiKeyTable :
        /\ k.secretHash = [salt |-> KeyDerivationSalt, message |-> key]
        /\ k.active
        /\ k.revokedAt = NoDate
        /\ (k.expiresAt = NoDate \/ After(k.expiresAt, now))}
\* The key has a '.' with at least one character before it.
HasPrefixSeparator(key) ==
    /\ \E j \in 2..Len(key) : key[j] = "."
    /\ key[1] # "."

\* C40: verifyApiKey sets request.tenant only for a key whose hash a stored
\* row holds, the row being active, not revoked and not expired, and the
\* context is that row's; a request without a key, with a key without the
\* prefix separator, or with a key no such row matches is answered 401 and
\* its tenant context stays unset.
C40_TenantOnlyForUsableKey ==
    \A n \in 1..Len(verified) :
        LET r == verified[n]
            key == PresentedKey(r)
            rows == UsableRowsOf(key)
        IN /\ r.code \in {200, 401}
           /\ r.code = 401 <=> r.tenant = NoTenant
           /\ r.code = 200 =>
                  \E k \in rows :
                      /\ r.tenant.organisationId = k.organisationId
                      /\ r.tenant.apiKeyId = k.id
                      /\ r.tenant.scopes = k.scopes
           /\ r.apiKeyRaw = NoKey => r.code = 401 /\ r.error = "Missing API key"
           /\ (r.apiKeyRaw # NoKey /\ ~HasPrefixSeparator(key))
                  => r.code = 401 /\ r.error = "Invalid API key format"
           /\ (HasPrefixSeparator(key) /\ rows = {})
                  => r.code = 401 /\ r.error = "Invalid API key"

\* C40 witness: the revoked key was answered 401 with no tenant context,
\* and the key of tA, sent as a Bearer token, got the context of tA and not
\* that of the row sharing its prefix and last four characters.
C40_Witness ==
    /\ Len(verified) = 2
    /\ verified[1].apiKeyRaw = KeyRevoked
    /\ verified[1].code = 401
    /\ verified[1].tenant = NoTenant
    /\ verified[2].apiKeyRaw = Bearer(KeyA)
    /\ verified[2].code = 200
    /\ verified[2].tenant.organisationId = "tA"
    /\ verified[2].tenant.apiKeyId = "key_1"

====
